---- MODULE Spec2Model ----
(***************************************************************************)
(* Scene templating and prompt composition of NaijaStoic:                  *)
(*   modules/scene_parser.py, modules/visual_generator.py,                 *)
(*   modules/motion_generator.py, modules/sfx_generator.py,                *)
(*   modules/metadata_manager.py and the request handlers of app.py.       *)
(*                                                                         *)
(* Python values that reach the code from the script oracle are untyped.   *)
(* They are modelled as tagged records (PyNone, PyInt, PyStr) so that the  *)
(* code's behaviour on a null or wrongly typed field, an exception         *)
(* included, is part of the model.  Strings are TLA+ strings; substring    *)
(* tests, lower(), strip() and split() are computed character by           *)
(* character.                                                              *)
(***************************************************************************)
EXTENDS Integers, Sequences, FiniteSets, TLC

\* ------------------------------------------------------------------ bounds
\* Longest raw scene list the oracle hands over.
MaxScenes == 14

\* Longest of the plain over-long lists (scenes numbered 1..n, nothing odd)
\* the oracle hands over beyond MaxScenes.
MaxLongScenes == 20

\* Longest scene list of a build_complete_output request that is composed.
MaxComposeScenes == 2

\* Number of distinct outcomes of the random source explored per call.
MaxDraw == 2

\* Longest scene list the SEO functions are applied to.
MaxSeoScenes == 3

\* ------------------------------------------------------------ Python values
PyNone == [t |-> "none", i |-> 0, s |-> ""]
PyInt(n) == [t |-> "int", i |-> n, s |-> ""]
PyStr(x) == [t |-> "str", i |-> 0, s |-> x]

IsInt(v) == v.t = "int"
IsStr(v) == v.t = "str"

\* bool(v)
Truthy(v) ==
    CASE v.t = "none" -> FALSE
      [] v.t = "int" -> v.i # 0
      [] OTHER -> v.s # ""

\* a or b
PyOr(a, b) == IF Truthy(a) THEN a ELSE b

\* dict.get(key, default)
Get(d, key, default) == IF key \in DOMAIN d THEN d[key] ELSE default

\* v == n for an int literal n
EqInt(v, n) == IsInt(v) /\ v.i = n

\* v == x for a str literal x
EqStr(v, x) == IsStr(v) /\ v.s = x

\* str(v), as an f-string formats v
Fmt(v) ==
    CASE v.t = "none" -> "None"
      [] v.t = "int" -> ToString(v.i)
      [] OTHER -> v.s

\* repr(v), as a list's str() formats its elements
Repr(v) == IF IsStr(v) THEN "'" \o v.s \o "'" ELSE Fmt(v)

RECURSIVE JoinRepr(_, _)
JoinRepr(vs, k) ==
    IF k > Len(vs) THEN ""
    ELSE (IF k > 1 THEN ", " ELSE "") \o Repr(vs[k]) \o JoinRepr(vs, k + 1)

\* str(list)
ListRepr(vs) == "[" \o JoinRepr(vs, 1) \o "]"

Min(a, b) == IF a < b THEN a ELSE b
Max(a, b) == IF a > b THEN a ELSE b

\* ------------------------------------------------------------------ strings
\* needle in hay
Contains(needle, hay) ==
    \E k \in 1..(Len(hay) - Len(needle) + 1) :
        SubSeq(hay, k, k + Len(needle) - 1) = needle

IsSpace(c) == c \in {" ", "\t", "\n"}

\* not s.strip()
IsBlank(x) == \A k \in 1..Len(x) : IsSpace(SubSeq(x, k, k))

\* len(s.split()): the number of maximal runs of non-space characters
WordCount(x) ==
    Cardinality({k \in 1..Len(x) :
        /\ ~IsSpace(SubSeq(x, k, k))
        /\ (k = 1 \/ IsSpace(SubSeq(x, k - 1, k - 1)))})

UpperCase == "ABCDEFGHIJKLMNOPQRSTUVWXYZ"
LowerCase == "abcdefghijklmnopqrstuvwxyz"

LowerChar(c) ==
    IF \E k \in 1..Len(UpperCase) : SubSeq(UpperCase, k, k) = c
    THEN LET k == CHOOSE j \in 1..Len(UpperCase) : SubSeq(UpperCase, j, j) = c
         IN  SubSeq(LowerCase, k, k)
    ELSE c

RECURSIVE LowerFrom(_, _)
LowerFrom(x, k) ==
    IF k > Len(x) THEN "" ELSE LowerChar(SubSeq(x, k, k)) \o LowerFrom(x, k + 1)

\* s.lower()
Lower(x) == LowerFrom(x, 1)

\* --------------------------------------------------------- scene_parser.py
Phases == {"Hook", "Build", "Pivot", "Dunk"}
Roles == {"protagonist", "antagonist", "both"}

Template(shot, angle, phase, character, duration) ==
    [shot_type |-> shot, camera_angle |-> angle, phase |-> phase,
     character |-> character, duration |-> duration]

\* The rows of the 13-scene table of the single-location format.
TemplateRows ==
    <<Template("Close-up (Chioma)", "Close-up", "Hook", "antagonist", "0-7s"),
      Template("Medium shot (Chioma)", "Medium", "Hook", "antagonist", "7-14s"),
      Template("Wide shot (Chioma)", "Wide", "Hook", "antagonist", "14-21s"),
      Template("Over-shoulder (Chioma)", "Over-shoulder", "Build", "antagonist", "21-28s"),
      Template("Close-up (Chioma)", "Close-up", "Build", "antagonist", "28-35s"),
      Template("Medium shot (Odogwu)", "Medium", "Build", "protagonist", "35-42s"),
      Template("Close-up (Odogwu)", "Close-up", "Pivot", "protagonist", "42-49s"),
      Template("Two-shot", "Two-shot", "Pivot", "both", "49-56s"),
      Template("Medium shot (Chioma)", "Medium", "Pivot", "antagonist", "56-63s"),
      Template("Close-up (Odogwu)", "Close-up", "Dunk", "protagonist", "63-70s"),
      Template("Medium shot (Odogwu)", "Medium", "Dunk", "protagonist", "70-77s"),
      Template("Wide shot (Odogwu & Chioma)", "Wide", "Dunk", "protagonist", "77-84s"),
      Template("Final Close-up (Odogwu)", "Close-up", "Dunk", "protagonist", "84-91s")>>

\* Mutant: scene 8's row names a role the composers do not know.
single_templates_UnknownRole == [TemplateRows EXCEPT ![8].character = "Both"]

\* single_templates, keyed by scene_id
single_templates == TemplateRows

\* scene_id in single_templates
InSingleTemplates(scene_id) == IsInt(scene_id) /\ scene_id.i \in 1..Len(single_templates)

Angles == <<"Medium", "Wide", "Over-shoulder", "Close-up">>
PhaseList == <<"Hook", "Build", "Pivot", "Dunk">>

\* The result of a call: raised = "" and the value, or the exception's name.
Ok(v) == [raised |-> "", value |-> v]
Raise(e) == [raised |-> e, value |-> <<>>]

\* list[k] for a 0-based Python index k, negative indices counted from the end
PyIndex(list, k) ==
    IF k >= 0 /\ k < Len(list) THEN Ok(list[k + 1])
    ELSE IF k < 0 /\ k >= -Len(list) THEN Ok(list[Len(list) + k + 1])
    ELSE Raise("IndexError")

DynamicOpening ==
    [shot_type |-> "Close-up", camera_angle |-> "Close-up", phase |-> "Hook",
     character |-> "antagonist"]

DynamicCloser ==
    [shot_type |-> "Final Close-up", camera_angle |-> "Close-up", phase |-> "Dunk",
     character |-> "protagonist"]

\* Mutant: the phase bands are ceil(total / 4) scenes wide.
DynamicCycle_CeilBands(scene_id, total) ==
    IF ~IsInt(scene_id) THEN Raise("TypeError")
    ELSE LET idx == (scene_id.i - 1) % Len(Angles)
             phase_idx == Min(3, (scene_id.i - 1) \div Max(1, (total + 3) \div 4))
             phase == PyIndex(PhaseList, phase_idx)
         IN  IF phase.raised # "" THEN phase
             ELSE Ok([shot_type |-> Angles[idx + 1] \o " shot",
                      camera_angle |-> Angles[idx + 1],
                      phase |-> phase.value,
                      character |-> IF scene_id.i > total \div 2
                                    THEN "protagonist" ELSE "antagonist"])

\* The cycling branch of get_dynamic_template, for an intermediate scene.
DynamicCycle(scene_id, total) ==
    IF ~IsInt(scene_id) THEN Raise("TypeError")
    ELSE LET idx == (scene_id.i - 1) % Len(Angles)
             phase_idx == Min(3, (scene_id.i - 1) \div Max(1, total \div 4))
             phase == PyIndex(PhaseList, phase_idx)
         IN  IF phase.raised # "" THEN phase
             ELSE Ok([shot_type |-> Angles[idx + 1] \o " shot",
                      camera_angle |-> Angles[idx + 1],
                      phase |-> phase.value,
                      character |-> IF scene_id.i > total \div 2
                                    THEN "protagonist" ELSE "antagonist"])

\* Mutant: the final scene is not special-cased.
get_dynamic_template_NoCloser(scene_id, total) ==
    IF EqInt(scene_id, 1) THEN Ok(DynamicOpening)
    ELSE DynamicCycle(scene_id, total)

\* get_dynamic_template(scene_id, total)
get_dynamic_template(scene_id, total) ==
    IF EqInt(scene_id, 1) THEN Ok(DynamicOpening)
    ELSE IF EqInt(scene_id, total) THEN Ok(DynamicCloser)
    ELSE DynamicCycle(scene_id, total)

\* Template Registry lookup: parse_scenes' choice between the two tables.
TemplateLookup(scene_id, story_mode, total) ==
    IF story_mode = "single" /\ InSingleTemplates(scene_id)
    THEN Ok(single_templates[scene_id.i])
    ELSE get_dynamic_template(scene_id, total)

\* f"{i*7}-{(i+1)*7}s" for the 0-based list position i
DurationSlot(i) == ToString(i * 7) \o "-" \o ToString((i + 1) * 7) \o "s"

\* Mutant: an upstream duration is inherited when the record carries one.
SceneDuration_Inherited(i, scene) ==
    PyOr(Get(scene, "duration", PyNone), PyStr(DurationSlot(i)))

\* The "duration" entry of the enriched scene at 0-based position i.
SceneDuration(i, scene) == PyStr(DurationSlot(i))

\* Mutant: the template fills a field only when the raw record lacks the key.
EnrichScene_KeyDefault(i, scene, story_mode, total) ==
    LET scene_id == Get(scene, "scene_id", PyInt(i + 1))
        template == TemplateLookup(scene_id, story_mode, total)
    IN  IF template.raised # "" THEN template
        ELSE LET tpl == template.value
             IN  Ok([scene_id |-> scene_id,
                     shot_type |-> Get(scene, "shot_type", PyStr(tpl.shot_type)),
                     camera_angle |-> Get(scene, "camera_angle", PyStr(tpl.camera_angle)),
                     description |-> PyOr(Get(scene, "description", PyNone),
                                          PyStr("Scene " \o Fmt(scene_id))),
                     duration |-> SceneDuration(i, scene),
                     dialogue |-> Get(scene, "dialogue", PyStr("")),
                     character |-> Get(scene, "character", PyStr(tpl.character)),
                     phase |-> Get(scene, "phase", PyStr(tpl.phase)),
                     action_description |-> Get(scene, "action_description", PyStr("")),
                     location_context |-> Get(scene, "location_description", PyStr(""))])

\* Mutant: the scenes are renumbered by list position.
EnrichScene_Renumbered(i, scene, story_mode, total) ==
    LET scene_id == PyInt(i + 1)
        template == TemplateLookup(scene_id, story_mode, total)
    IN  IF template.raised # "" THEN template
        ELSE LET tpl == template.value
             IN  Ok([scene_id |-> scene_id,
                     shot_type |-> PyOr(Get(scene, "shot_type", PyNone), PyStr(tpl.shot_type)),
                     camera_angle |-> PyOr(Get(scene, "camera_angle", PyNone), PyStr(tpl.camera_angle)),
                     description |-> PyOr(Get(scene, "description", PyNone),
                                          PyStr("Scene " \o Fmt(scene_id))),
                     duration |-> SceneDuration(i, scene),
                     dialogue |-> Get(scene, "dialogue", PyStr("")),
                     character |-> PyOr(Get(scene, "character", PyNone), PyStr(tpl.character)),
                     phase |-> PyOr(Get(scene, "phase", PyNone), PyStr(tpl.phase)),
                     action_description |-> Get(scene, "action_description", PyStr("")),
                     location_context |-> Get(scene, "location_description", PyStr(""))])

\* The loop body of parse_scenes for the scene at 0-based position i.
EnrichScene(i, scene, story_mode, total) ==
    LET scene_id == Get(scene, "scene_id", PyInt(i + 1))
        template == TemplateLookup(scene_id, story_mode, total)
    IN  IF template.raised # "" THEN template
        ELSE LET tpl == template.value
             IN  Ok([scene_id |-> scene_id,
                     shot_type |-> PyOr(Get(scene, "shot_type", PyNone), PyStr(tpl.shot_type)),
                     camera_angle |-> PyOr(Get(scene, "camera_angle", PyNone), PyStr(tpl.camera_angle)),
                     description |-> PyOr(Get(scene, "description", PyNone),
                                          PyStr("Scene " \o Fmt(scene_id))),
                     duration |-> SceneDuration(i, scene),
                     dialogue |-> Get(scene, "dialogue", PyStr("")),
                     character |-> PyOr(Get(scene, "character", PyNone), PyStr(tpl.character)),
                     phase |-> PyOr(Get(scene, "phase", PyNone), PyStr(tpl.phase)),
                     action_description |-> Get(scene, "action_description", PyStr("")),
                     location_context |-> Get(scene, "location_description", PyStr(""))])

\* parse_scenes(transformed_dialogue, story_mode)
parse_scenes(transformed_dialogue, story_mode) ==
    LET total_scenes == Len(transformed_dialogue)
        each == [k \in 1..total_scenes |->
                    EnrichScene(k - 1, transformed_dialogue[k], story_mode, total_scenes)]
        failed == {k \in 1..total_scenes : each[k].raised # ""}
    IN  IF failed # {}
        THEN Raise(each[CHOOSE k \in failed : \A j \in failed : k <= j].raised)
        ELSE Ok([k \in 1..total_scenes |-> each[k].value])

\* The scene count validate_scene_structure expects.
ExpectedScenes == 13

\* list(range(1, 14))
expected_ids == [k \in 1..ExpectedScenes |-> PyInt(k)]

\* Filter a sequence of optional issue strings ("" = no issue), order kept.
RECURSIVE Collect(_, _)
Collect(opt, k) ==
    IF k > Len(opt) THEN <<>>
    ELSE (IF opt[k] = "" THEN <<>> ELSE <<opt[k]>>) \o Collect(opt, k + 1)

\* validate_scene_structure(scenes)
validate_scene_structure(scenes) ==
    LET n == Len(scenes)
        actual_ids == [k \in 1..n |-> Get(scenes[k], "scene_id", PyNone)]
        dialogue(k) == Get(scenes[k], "dialogue", PyStr(""))
        count_issue ==
            IF n # ExpectedScenes
            THEN <<"Expected 13 scenes, got " \o ToString(n)>> ELSE <<>>
        ids_issue ==
            IF actual_ids # expected_ids
            THEN <<"Scene IDs not sequential. Expected " \o ListRepr(expected_ids)
                    \o ", got " \o ListRepr(actual_ids)>>
            ELSE <<>>
        empty_issues ==
            Collect([k \in 1..n |->
                IF IsBlank(dialogue(k).s)
                THEN "Scene " \o Fmt(actual_ids[k]) \o " has no dialogue" ELSE ""], 1)
        long_issues ==
            Collect([k \in 1..n |->
                IF WordCount(dialogue(k).s) > 20
                THEN "Scene " \o Fmt(actual_ids[k]) \o " has "
                     \o ToString(WordCount(dialogue(k).s))
                     \o " words (should be 10-15 for 7 sec)"
                ELSE ""], 1)
        issues == count_issue \o ids_issue \o empty_issues \o long_issues
    IN  IF \E k \in 1..n : ~IsStr(dialogue(k))
        THEN Raise("AttributeError")
        ELSE Ok([valid |-> Len(issues) = 0, issues |-> issues])

\* ----------------------------------------------------- visual_generator.py
\* ANIMATION_STYLES.get(animation_style, ANIMATION_STYLES["3d_cgi"])
AnimationStyle(animation_style) ==
    IF animation_style = "2d_lofi"
    THEN [base_style |-> "2D lofi anime style, clean flat colors, minimalist shading",
          aspect_ratio |-> "vertical 9:16"]
    ELSE [base_style |-> "3D CGI animated film style, large expressive eyes, smooth shading",
          aspect_ratio |-> "vertical 9:16"]

\* CHARACTERS[...]["base_desc"], the physical anchors
dad_base_desc ==
    "Full image of a muscular Nigerian man, 30s, dark skin, wearing only English style clothing, short-cropped buzz cut hairstyle, sharp goatee"

mom_base_desc ==
    "Full image of a curvy Nigerian woman, 30s, medium dark skin, wearing only English style clothing, large round afro hairstyle, wearing black glasses, bold red lipstick"

triplet_base_desc ==
    "Full image of a pretty young Nigerian woman, 20s, dark skin, wearing only English style clothing, long braided cornrows hairstyle, expressive big eyes"

segun_base_desc ==
    "Full image of a handsome Nigerian man, 20s, medium skin, wearing only English style clothing, stylish low-fade haircut, clean shaven"

\* CHARACTERS["odogwu"]["name"], CHARACTERS["antagonist"]["name"]
odogwu_name == "Odogwu"
antagonist_name == "Chioma"

\* OUTFIT_POOLS["odogwu"]
OUTFIT_POOL_ODOGWU ==
    <<"a sharp tailored grey blazer over a black turtleneck and slim-fit trousers",
      "a fitted cream hoodie with dark cargo pants and clean streetwear sneakers",
      "a crisp white linen button-down shirt with dark blue fitted denim jeans",
      "a classic-fit denim jacket over a white t-shirt and charcoal chinos",
      "a sleek navy blue bomber jacket with a plain t-shirt and dark jeans",
      "a structured tan trench coat over a high-neck sweater and dress pants",
      "a premium cotton polo shirt with well-fitted chinos",
      "casual wear featuring a high-quality beautiful shirt and stylish trousers",
      "a smart-casual look with a leather jacket over a simple tee and jeans">>

\* OUTFIT_POOLS["antagonist"]
OUTFIT_POOL_ANTAGONIST ==
    <<"a sophisticated long floral maxi dress with a high neckline and elegant long sleeves",
      "a modest knee-length floral midi dress with a high neckline and long sleeves",
      "high-waisted long denim jeans with a crisp white tailored button-down shirt",
      "a tailored beige blazer over a full-length maxi skirt and simple top",
      "a tailored blazer over a professional knee-length pencil skirt and blouse",
      "elegant wide-leg trousers with a fitted turtleneck sweater and gold jewelry",
      "a sophisticated English-style wrap midi dress that hits just at the knee",
      "a modest silk blouse with a high-neck and structured full-length trousers",
      "a beautiful fitted shirt with a stylish knee-length skirt",
      "premium casual wear with designer jeans and a chic top">>

\* OUTFIT_POOLS.get(character_target, OUTFIT_POOLS["odogwu"])
OutfitPool(character_target) ==
    IF character_target = "antagonist" THEN OUTFIT_POOL_ANTAGONIST ELSE OUTFIT_POOL_ODOGWU

HAIRSTYLES ==
    <<"a neatly faded haircut",
      "braided cornrows",
      "an elegant low bun",
      "a stylish afro",
      "short natural hair">>

MAKEUP ==
    <<"clean skin and natural look",
      "bold red lipstick and perfect contour",
      "shimmery eyeshadow and glossy lips",
      "a fresh-faced glow">>

ACCESSORIES ==
    <<"a luxury wristwatch",
      "stylish eyeglasses",
      "a delicate gold necklace">>

SHOES ==
    <<"polished loafers",
      "clean designer sneakers",
      "elegant high heels",
      "stylish leather sandals",
      "classic dress shoes">>

LOCATION_POOL ==
    <<"high-end bedroom with a large wardrobe in the background, modern Nigerian interior design",
      "luxury Lagos penthouse living room with floor-to-ceiling windows showing city lights",
      "contemporary home office with mahogany furniture and modern minimalist art",
      "exclusive rooftop lounge in Victoria Island with a view of the Atlantic",
      "modern minimalist kitchen with marble countertops and sleek appliances",
      "lush private garden patio with tropical plants and soft ambient lighting",
      "sophisticated private library with wall-to-wall books and leather armchairs">>

\* The pools generate_image_prompt draws a one-off character's look from.
SKIN_TONES == <<"dark", "medium-dark", "rich ebony">>
DYNAMIC_HAIR == <<"short hair", "braided hair", "neat fade", "locs">>

\* random.choice(pool): the random source's outcome r, a natural number, picks
\* the element.  Every call of a composer gets its own outcome; the draws made
\* inside one call read the same outcome.
Choice(pool, r) == pool[(r % Len(pool)) + 1]

\* The outcomes of the random source that are explored.
Outcomes == 0..(MaxDraw - 1)

\* generate_character_style(character_target, outfit_override); outfit_override
\* is a Python value, None when the caller has no outfit for the character.
generate_character_style(character_target, outfit_override, r) ==
    LET outfit == IF Truthy(outfit_override) THEN Fmt(outfit_override)
                  ELSE Choice(OutfitPool(character_target), r)
    IN  "wearing " \o outfit \o ", with " \o Choice(HAIRSTYLES, r)
        \o (IF character_target = "antagonist" THEN ", " ELSE ", looking clean with ")
        \o Choice(MAKEUP, r) \o ", accessorized with " \o Choice(ACCESSORIES, r)
        \o ", and wearing " \o Choice(SHOES, r)

\* DEFAULT_LOCATION, the location of the establishing shot
DEFAULT_LOCATION ==
    "high-end bedroom with a large wardrobe in the background, modern Nigerian interior design, softly lit, luxury Lekki home"

\* Mutant: the scene setup never reads the visual context's location.
SetupLocationDesc_PoolOnly(visual_context, r) == PyStr(Choice(LOCATION_POOL, r))

\* location_desc of generate_scene_setup_prompt:
\* visual_context.get("location") or random.choice(LOCATION_POOL) for a dict,
\* random.choice(LOCATION_POOL) otherwise
SetupLocationDesc(visual_context, r) ==
    IF visual_context.is_dict
    THEN PyOr(Get(visual_context.d, "location", PyNone), PyStr(Choice(LOCATION_POOL, r)))
    ELSE PyStr(Choice(LOCATION_POOL, r))

\* generate_scene_setup_prompt(animation_style, story_context, visual_context);
\* story_context is the dict extract_story_context returned.
generate_scene_setup_prompt(animation_style, story_context, visual_context, r) ==
    LET style == AnimationStyle(animation_style)
        style_desc == IF visual_context.is_dict
                      THEN Get(visual_context.d, "style", PyStr("")) ELSE PyStr("")
        location_desc == SetupLocationDesc(visual_context, r)
        outfits == story_context.outfit_changes
        dad_style == generate_character_style("odogwu", Get(outfits, "odogwu", PyNone), r)
        mom_style == generate_character_style("antagonist",
                                              Get(outfits, "antagonist", PyNone), r)
        dad_full == "Dad (Odogwu): " \o dad_base_desc \o ", " \o dad_style
        mom_full == "Mom (Amaka): " \o mom_base_desc \o ", " \o mom_style
        prop_description == story_context.prop_description
        context_element == IF prop_description # ""
                           THEN "The focal point features " \o prop_description \o ". "
                           ELSE ""
        style_instruction == IF Truthy(style_desc)
                             THEN "Visual Style: " \o Fmt(style_desc) \o ". " \o style.base_style
                             ELSE style.base_style
    IN  "Scene Setup - Clear Wide shot: " \o dad_full \o " and " \o mom_full
        \o ". Both characters are positioned professionally for a dialogue scene, with Odogwu standing on the left side and Amaka standing on the right side of the frame. STRICT MANDATE: Characters must wear ONLY English Western style clothing (suites, shirts, jeans) - NO traditional wear or kaftans. Both characters are fully visible in a "
        \o Fmt(location_desc)
        \o ", maintaining physical anchors (Dad's buzz cut and Mom's Afro/glasses). "
        \o context_element \o "The composition is clean and balanced. "
        \o style_instruction \o ", " \o style.aspect_ratio \o "."

\* get_style_variations().get(variation, "")
StyleGrading(variation) ==
    CASE variation = "default" -> "Balanced Naija Lofi - Purple/Blue grading"
      [] variation = "luxury" -> "Enhanced Gold - Warmer purple with gold accents"
      [] variation = "premium" -> "Deep Teal - Sophisticated purple and teal palette"
      [] OTHER -> ""

\* get_scene_action_detailed(phase, character, scene_id); phase and scene_id
\* are Python values, character is "protagonist" or "antagonist".
get_scene_action_detailed(phase, character, scene_id) ==
    CASE EqStr(phase, "Hook") ->
            IF character = "antagonist"
            THEN "looking emotional or dramatic, using wild hand gestures to emphasize her point, standing with entitled expression"
            ELSE "standing calmly with arms crossed, neural expression, observing quietly"
      [] EqStr(phase, "Build") ->
            IF character = "antagonist"
            THEN "gesturing passionately, defensive body language, maintaining strong eye contact"
            ELSE "listening calmly with hands in pockets, slight head tilt, composed expression, standing still"
      [] EqStr(phase, "Pivot") ->
            IF character = "protagonist"
            THEN "asking a question calmly, slight eyebrow raise, direct gaze, one hand gesturing reasonably"
            ELSE IF character = "antagonist"
            THEN "caught off guard, processing the question with confused expression, slightly defensive posture"
            ELSE "engaged in tense dialogue, protagonist calm and analytical, antagonist reactive and emotional"
      [] EqStr(phase, "Dunk") ->
            IF character = "protagonist"
            THEN IF EqInt(scene_id, 13)
                 THEN "delivering final point with calm authority, knowing smile, hands open in explaining gesture, standing confidently"
                 ELSE "explaining logically with measured hand gestures, composed expression, making clear points while standing firm"
            ELSE "deflated posture, speechless expression, hand dropped to side, argument weakening"
      [] OTHER -> "standing naturally"

\* A visual context is the str or the dict handed to build_complete_output:
\* is_dict tells which, d holds the dict's entries, s the string.
VcStr(x) == [is_dict |-> FALSE, d |-> <<>>, s |-> x]
VcDict(entries) == [is_dict |-> TRUE, d |-> entries, s |-> ""]

\* style_desc of generate_image_prompt and generate_image_prompt_condensed
StyleDesc(visual_context) ==
    IF visual_context.is_dict THEN Get(visual_context.d, "style", PyStr("")) ELSE PyStr("")

\* Mutant: the visual context's location comes before the scene's own.
LocationDesc_ContextFirst(scene, visual_context, r) ==
    LET scene_location == Get(scene, "location_context", PyNone)
        drawn == PyStr(Choice(LOCATION_POOL, r))
    IN  IF visual_context.is_dict
        THEN PyOr(PyOr(Get(visual_context.d, "location", PyNone), scene_location), drawn)
        ELSE PyOr(scene_location, drawn)

\* location_desc of generate_image_prompt and generate_image_prompt_condensed:
\* scene_location or visual_context.get("location") or random.choice(LOCATION_POOL)
LocationDesc(scene, visual_context, r) ==
    LET scene_location == Get(scene, "location_context", PyNone)
        drawn == PyStr(Choice(LOCATION_POOL, r))
    IN  IF visual_context.is_dict
        THEN PyOr(PyOr(scene_location, Get(visual_context.d, "location", PyNone)), drawn)
        ELSE PyOr(scene_location, drawn)

\* posture_desc of generate_image_prompt
PostureDesc(visual_context) ==
    IF visual_context.is_dict
    THEN PyOr(Get(visual_context.d, "posture", PyNone), PyStr("standing"))
    ELSE PyStr("standing")

\* The style instruction both image prompts end with.
StyleInstruction(variation, animation_style, visual_context) ==
    LET style == AnimationStyle(animation_style)
        grading == StyleGrading(variation)
        graded == IF grading # "" THEN style.base_style \o ", " \o grading
                  ELSE style.base_style
        style_desc == StyleDesc(visual_context)
    IN  IF Truthy(style_desc) THEN "Visual Style: " \o Fmt(style_desc) \o ". " \o graded
        ELSE graded

AnyIn(needles, hay) == \E needle \in needles : Contains(needle, hay)

\* The character anchor generate_image_prompt resolves from the lower-cased
\* character name: the description in focus and whether the outfit is a woman's.
FocusCharacter(character_name, display_name, r) ==
    IF AnyIn({"dad", "odogwu"}, character_name)
    THEN [desc |-> "Dad (Odogwu): " \o dad_base_desc, is_female |-> FALSE]
    ELSE IF AnyIn({"mom", "amaka"}, character_name)
    THEN [desc |-> "Mom (Amaka): " \o mom_base_desc, is_female |-> TRUE]
    ELSE IF AnyIn({"triplet", "ngozi", "chioma", "princess"}, character_name)
    THEN [desc |-> "Triplet: " \o triplet_base_desc, is_female |-> TRUE]
    ELSE IF Contains("segun", character_name)
    THEN [desc |-> display_name \o ": " \o segun_base_desc, is_female |-> FALSE]
    ELSE LET woman == AnyIn({"she", "her", "lady", "girl", "auntie", "sister"}, character_name)
         IN  [desc |-> display_name \o ": full image of a Nigerian "
                       \o (IF woman THEN "woman" ELSE "man") \o ", "
                       \o Choice(SKIN_TONES, r) \o " skin, " \o Choice(DYNAMIC_HAIR, r),
              is_female |-> woman]

\* The key generate_image_prompt looks the outfit up under.
OutfitKey(is_female) == IF is_female THEN "antagonist" ELSE "odogwu"

\* generate_image_prompt(scene, variation, animation_style, visual_context,
\* outfit_override); outfit_override is the dict of outfits by key.
generate_image_prompt(scene, variation, animation_style, visual_context, outfit_override, r) ==
    LET scene_id == Get(scene, "scene_id", PyInt(1))
        camera_angle == Get(scene, "camera_angle", PyStr("Close-up"))
        character == Get(scene, "character", PyStr("protagonist"))
        phase == Get(scene, "phase", PyStr("Hook"))
    IN  IF ~IsStr(character) THEN Raise("AttributeError")
        ELSE IF ~IsStr(camera_angle) THEN Raise("TypeError")
        ELSE
        LET location_desc == LocationDesc(scene, visual_context, r)
            posture_desc == PostureDesc(visual_context)
            focus == FocusCharacter(Lower(character.s),
                                    Fmt(Get(scene, "character", PyStr("Character"))), r)
            outfit_key == OutfitKey(focus.is_female)
            char_styling == generate_character_style(outfit_key,
                                Get(outfit_override, outfit_key, PyNone), r)
            focus_desc_with_outfit == focus.desc \o ", " \o char_styling
            base_action ==
                LET given == Get(scene, "action_description", PyNone)
                IN  IF Truthy(given) THEN Fmt(given)
                    ELSE get_scene_action_detailed(phase,
                            IF focus.is_female THEN "antagonist" ELSE "protagonist", scene_id)
            wide == Contains("Wide", camera_angle.s)
            context == (IF wide THEN "wide shot focusing on " ELSE "close-up shot of ")
                       \o focus_desc_with_outfit \o "."
            action == IF wide THEN base_action \o ", while " \o Fmt(posture_desc)
                      ELSE base_action
        IN  Ok(context \o " " \o action \o ". Background is a " \o Fmt(location_desc) \o ". "
               \o StyleInstruction(variation, animation_style, visual_context) \o ", "
               \o AnimationStyle(animation_style).aspect_ratio \o ".")

\* generate_image_prompt_condensed(scene, variation, animation_style, visual_context)
generate_image_prompt_condensed(scene, variation, animation_style, visual_context, r) ==
    LET character == Get(scene, "character", PyStr("protagonist"))
        location_desc == LocationDesc(scene, visual_context, r)
        talking_context ==
            IF EqStr(character, "protagonist")
            THEN odogwu_name \o " talking to " \o antagonist_name
            ELSE IF EqStr(character, "antagonist")
            THEN antagonist_name \o " talking to " \o odogwu_name
            ELSE odogwu_name \o " and " \o antagonist_name \o " in conversation"
    IN  Ok(talking_context \o ". Background is a " \o Fmt(location_desc) \o ". "
           \o StyleInstruction(variation, animation_style, visual_context) \o ", "
           \o AnimationStyle(animation_style).aspect_ratio \o ".")

\* ----------------------------------------------------- motion_generator.py
UpperChar(c) ==
    IF \E k \in 1..Len(LowerCase) : SubSeq(LowerCase, k, k) = c
    THEN LET k == CHOOSE j \in 1..Len(LowerCase) : SubSeq(LowerCase, j, j) = c
         IN  SubSeq(UpperCase, k, k)
    ELSE c

RECURSIVE UpperFrom(_, _)
UpperFrom(x, k) ==
    IF k > Len(x) THEN "" ELSE UpperChar(SubSeq(x, k, k)) \o UpperFrom(x, k + 1)

\* s.upper()
Upper(x) == UpperFrom(x, 1)

\* Mutant: the cycle has three moves, the fourth position finds no entry.
CameraCycle_ThreeMoves(scene_position) ==
    CASE scene_position = 1 ->
            "Very slow subtle push-in toward the left side of frame, focusing on the speaking character."
      [] scene_position = 2 ->
            "Very slow subtle push-in toward the right side of frame, focusing on the reacting character."
      [] scene_position = 3 ->
            "Locked-off wide static shot. No camera movement. Both characters fully visible."
      [] OTHER -> "No camera movement."

\* camera_cycles.get(scene_position, "No camera movement.")
CameraCycle(scene_position) ==
    CASE scene_position = 1 ->
            "Very slow subtle push-in toward the left side of frame, focusing on the speaking character."
      [] scene_position = 2 ->
            "Very slow subtle push-in toward the right side of frame, focusing on the reacting character."
      [] scene_position = 3 ->
            "Locked-off wide static shot. No camera movement. Both characters fully visible."
      [] scene_position = 4 ->
            "Slow subtle pan right across the frame, then settle. Cinematic drift."
      [] OTHER -> "No camera movement."

\* get_character_motion(scene_id, character)
get_character_motion(scene_id, character) ==
    CASE EqInt(scene_id, 1) /\ EqStr(character, "antagonist") ->
            "Character talking animatedly, hand gestures, head movements, facial expressions changing, blinking frequently."
      [] EqInt(scene_id, 1) /\ EqStr(character, "protagonist") ->
            "Character listening calmly, subtle blinking, minimal head movement, coffee steam rising from cup in foreground."
      [] EqInt(scene_id, 2) /\ EqStr(character, "protagonist") ->
            "Character speaking calmly, lips syncing to dialogue, slight eyebrow raise, minimal hand gesture, confident gaze."
      [] EqInt(scene_id, 2) /\ EqStr(character, "antagonist") ->
            "Character reacting with surprise, defensive body language, blinking, slight head tilt."
      [] EqInt(scene_id, 3) /\ EqStr(character, "protagonist") ->
            "Character delivering final point, calm confident expression, slight lean forward, knowing smile forming, steady eye contact."
      [] EqInt(scene_id, 3) /\ EqStr(character, "antagonist") ->
            "Character looking increasingly frustrated or speechless, looking away briefly, resigned expression."
      [] OTHER -> "Subtle blinking and breathing."

\* get_background_motion(shot_type) for a str shot_type
get_background_motion(shot_type) ==
    IF Contains("Close-up", shot_type)
    THEN "Background city lights flickering subtly through window, soft bokeh lights twinkling."
    ELSE IF Contains("Wide", shot_type)
    THEN "City skyline visible with twinkling lights, subtle curtain movement from AC, ambient room lighting pulsing gently."
    ELSE "Background windows showing Lagos night skyline with subtle light changes, ambient purple glow."

\* extra_instruction of generate_motion_prompt for the str visual_context
ExtraInstruction(visual_context) ==
    IF visual_context = "" THEN ""
    ELSE LET v_ctx == Lower(visual_context)
         IN  IF Contains("handheld", v_ctx) THEN " Handheld camera shake style."
             ELSE IF Contains("steady", v_ctx) \/ Contains("smooth", v_ctx)
             THEN " Ultra smooth sleek stabilization."
             ELSE IF Contains("dynamic", v_ctx) THEN " Dynamic active camera motion."
             ELSE IF Contains("static", v_ctx) THEN " Tripod static shot."
             ELSE ""

\* Mutant: the character motion always comes from the motion table.
generate_motion_prompt_TableOnly(scene, visual_context, aesthetic_type) ==
    LET scene_id == Get(scene, "scene_id", PyInt(1))
        shot_type == Get(scene, "shot_type", PyStr("Close-up"))
        character == Get(scene, "character", PyStr("protagonist"))
        aesthetic_note == IF Contains("2D", Upper(aesthetic_type))
                          THEN "Maintain 2D aesthetic" ELSE "Maintain 3D aesthetic"
        base_motion == "Stay on one spot at all times. Subtle movements only. "
                       \o aesthetic_note \o "."
        action_desc == Get(scene, "action_description", PyStr(""))
    IN  IF ~IsInt(scene_id) THEN Raise("TypeError")
        ELSE IF ~IsStr(shot_type) THEN Raise("TypeError")
        ELSE
        LET camera_movement == CameraCycle(((scene_id.i - 1) % 4) + 1)
            char_motion ==
                IF FALSE
                THEN "Character action: " \o Fmt(action_desc)
                     \o ". Facial expressions matching dialogue emotion."
                ELSE get_character_motion(scene_id, character)
            bg_motion == get_background_motion(shot_type.s)
        IN  Ok(char_motion \o " " \o bg_motion \o " " \o camera_movement
               \o ExtraInstruction(visual_context) \o " " \o base_motion)

\* generate_motion_prompt(scene, visual_context, aesthetic_type); visual_context
\* is the style string build_complete_output extracts.
generate_motion_prompt(scene, visual_context, aesthetic_type) ==
    LET scene_id == Get(scene, "scene_id", PyInt(1))
        shot_type == Get(scene, "shot_type", PyStr("Close-up"))
        character == Get(scene, "character", PyStr("protagonist"))
        aesthetic_note == IF Contains("2D", Upper(aesthetic_type))
                          THEN "Maintain 2D aesthetic" ELSE "Maintain 3D aesthetic"
        base_motion == "Stay on one spot at all times. Subtle movements only. "
                       \o aesthetic_note \o "."
        action_desc == Get(scene, "action_description", PyStr(""))
    IN  IF ~IsInt(scene_id) THEN Raise("TypeError")
        ELSE IF ~IsStr(shot_type) THEN Raise("TypeError")
        ELSE
        LET camera_movement == CameraCycle(((scene_id.i - 1) % 4) + 1)
            char_motion ==
                IF Truthy(action_desc)
                THEN "Character action: " \o Fmt(action_desc)
                     \o ". Facial expressions matching dialogue emotion."
                ELSE get_character_motion(scene_id, character)
            bg_motion == get_background_motion(shot_type.s)
        IN  Ok(char_motion \o " " \o bg_motion \o " " \o camera_movement
               \o ExtraInstruction(visual_context) \o " " \o base_motion)

\* -------------------------------------------------------- sfx_generator.py
\* Mutant: the cues follow the speaker, the antagonist opening and the
\* protagonist closing.
get_scene_sfx_BySpeaker(scene_id, character) ==
    IF EqStr(character, "antagonist")
    THEN <<"Low-tempo slowed + reverb Afrobeats instrumental (Burna Boy style)",
           "Muffled city noise in background",
           "Soft lofi hip-hop beat starting">>
    ELSE IF EqInt(scene_id, 2)
    THEN <<"Record scratch sound effect",
           "Brief silence for dramatic pause (1-2s)",
           "Tension-building string note",
           "Subtle heartbeat sound emerging">>
    ELSE <<"Deep bass thud on key logic points",
           "Heartbeat intensifying",
           "Mic drop sound effect at end",
           "Cinematic boom/impact sound">>

\* get_scene_sfx(scene_id, character)
get_scene_sfx(scene_id, character) ==
    IF EqInt(scene_id, 1)
    THEN <<"Low-tempo slowed + reverb Afrobeats instrumental (Burna Boy style)",
           "Muffled city noise in background",
           "Soft lofi hip-hop beat starting">>
    ELSE IF EqInt(scene_id, 2)
    THEN <<"Record scratch sound effect",
           "Brief silence for dramatic pause (1-2s)",
           "Tension-building string note",
           "Subtle heartbeat sound emerging">>
    ELSE <<"Deep bass thud on key logic points",
           "Heartbeat intensifying",
           "Mic drop sound effect at end",
           "Cinematic boom/impact sound">>

\* get_ambient_sfx()
get_ambient_sfx ==
    <<"Lagos city ambiance (distant traffic, city hum)",
      "Wind chime or subtle bell tones",
      "Coffee shop ambiance (very subtle)",
      "Light rain against window (optional for mood)">>

\* suggest_sfx(scene)
suggest_sfx(scene) ==
    get_scene_sfx(Get(scene, "scene_id", PyInt(1)),
                  Get(scene, "character", PyStr("protagonist")))
    \o get_ambient_sfx

\* --------------------------------------------------- metadata_manager.py
\* get_character_name(character): map_names.get(character, character)
get_character_name(character) ==
    CASE EqStr(character, "protagonist") -> PyStr("Odogwu")
      [] EqStr(character, "antagonist") -> PyStr("Chioma")
      [] EqStr(character, "both") -> PyStr("Both Characters")
      [] OTHER -> character

\* generate_camera_pov(character, camera_angle, scene_id)
generate_camera_pov(character, camera_angle, scene_id) ==
    LET who == IF EqStr(character, "protagonist")
               THEN [focal |-> "Odogwu", level |-> "steady, eye level from Chioma's position"]
               ELSE IF EqStr(character, "antagonist")
               THEN [focal |-> "Chioma", level |-> "steady, eye level from Odogwu's position"]
               ELSE [focal |-> "Both characters", level |-> "neutral observer, slightly elevated"]
    IN  Fmt(camera_angle) \o " - " \o who.focal \o "'s perspective, " \o who.level

\* The phase x character tables of the metadata manager: the entry for a known
\* phase and role, "" where the table has none.
NarrativeMap(phase, role) ==
    CASE phase = "Hook" /\ role = "protagonist" -> "Observing antagonist's demands calmly"
      [] phase = "Hook" /\ role = "antagonist" -> "Making entitled demands/establishing conflict"
      [] phase = "Hook" /\ role = "both" -> "Initial confrontation - setting up the argument"
      [] phase = "Build" /\ role = "protagonist" -> "Listening and processing the argument"
      [] phase = "Build" /\ role = "antagonist" -> "Defending position with passion"
      [] phase = "Build" /\ role = "both" -> "Argument intensifying - both sides presenting"
      [] phase = "Pivot" /\ role = "protagonist" -> "Asking the critical question - shift begins"
      [] phase = "Pivot" /\ role = "antagonist" -> "Reacting to unexpected question"
      [] phase = "Pivot" /\ role = "both" -> "Turning point - logic meets emotion"
      [] phase = "Dunk" /\ role = "protagonist" -> "Delivering logical breakdown/final point"
      [] phase = "Dunk" /\ role = "antagonist" -> "Realizing the logical trap"
      [] phase = "Dunk" /\ role = "both" -> "Resolution - protagonist's logic wins"
      [] OTHER -> ""

ToneMap(phase, role) ==
    CASE phase = "Hook" /\ role = "protagonist" -> "Calm, observant"
      [] phase = "Hook" /\ role = "antagonist" -> "Entitled, demanding"
      [] phase = "Hook" /\ role = "both" -> "Tense confrontation"
      [] phase = "Build" /\ role = "protagonist" -> "Composed, analytical"
      [] phase = "Build" /\ role = "antagonist" -> "Passionate, defensive"
      [] phase = "Build" /\ role = "both" -> "Rising conflict"
      [] phase = "Pivot" /\ role = "protagonist" -> "Strategic, questioning"
      [] phase = "Pivot" /\ role = "antagonist" -> "Confused, caught off-guard"
      [] phase = "Pivot" /\ role = "both" -> "Shifting dynamics"
      [] phase = "Dunk" /\ role = "protagonist" -> "Confident, logical"
      [] phase = "Dunk" /\ role = "antagonist" -> "Deflated, speechless"
      [] phase = "Dunk" /\ role = "both" -> "Resolution, victory"
      [] OTHER -> ""

\* The table is keyed by str: a value of another type finds no entry.
Keyed(phase, character) == IsStr(phase) /\ IsStr(character)

\* generate_narrative_pov(character, phase, scene_id)
generate_narrative_pov(character, phase, scene_id) ==
    IF Keyed(phase, character) /\ NarrativeMap(phase.s, character.s) # ""
    THEN NarrativeMap(phase.s, character.s)
    ELSE Fmt(get_character_name(character)) \o " in " \o Fmt(phase) \o " phase"

\* generate_editing_notes(phase, character, scene_id)
generate_editing_notes(phase, character, scene_id) ==
    CASE EqStr(phase, "Hook") ->
            IF EqStr(character, "antagonist")
            THEN "Emphasize entitled expression, wild gestures. Build initial conflict. Consider light VFX on key words."
            ELSE "Show calm composure contrast. Subtle reactions only. Establish protagonist's stoic nature."
      [] EqStr(phase, "Build") ->
            IF EqStr(character, "antagonist")
            THEN "Increase intensity. Passionate gestures. Show defensive body language building."
            ELSE "Maintain calm demeanor. Slight eyebrow raises or head tilts. Contrast against antagonist's energy."
      [] EqStr(phase, "Pivot") ->
            IF EqStr(character, "protagonist")
            THEN "KEY MOMENT: Emphasize the question. Slight pause before delivery. This is the trap being set."
            ELSE IF EqStr(character, "antagonist")
            THEN "Show confusion/surprise. Defensive posture shift. The trap is sprung."
            ELSE "Tension peak. Both characters engaged. Show the shift in power dynamic."
      [] EqStr(phase, "Dunk") ->
            IF EqStr(character, "protagonist")
            THEN IF scene_id.i >= 12
                 THEN "PAYOFF: Strong confident delivery. Knowing smile. Final mic drop moment. Consider SFX emphasis."
                 ELSE "Logical explanation. Clear, measured points. Show intelligence and confidence building."
            ELSE "Show defeat. Deflated posture. Speechless reaction. Argument crumbling."
      [] OTHER -> "Standard " \o Fmt(phase) \o " phase execution"

\* get_emotional_tone(phase, character)
get_emotional_tone(phase, character) ==
    IF Keyed(phase, character) /\ ToneMap(phase.s, character.s) # ""
    THEN ToneMap(phase.s, character.s)
    ELSE "Neutral"

\* get_phase_purpose(phase)
get_phase_purpose(phase) ==
    CASE EqStr(phase, "Hook") -> "Establish conflict and grab attention"
      [] EqStr(phase, "Build") -> "Develop argument and raise tension"
      [] EqStr(phase, "Pivot") -> "Turn the tables with logic"
      [] EqStr(phase, "Dunk") -> "Deliver the logical knockout"
      [] OTHER -> "Story progression"

\* generate_scene_metadata(scene, seo_data, animation_style, visual_context)
generate_scene_metadata(scene) ==
    LET scene_id == Get(scene, "scene_id", PyInt(1))
        character == Get(scene, "character", PyStr("protagonist"))
        phase == Get(scene, "phase", PyStr("Unknown"))
        camera_angle == Get(scene, "camera_angle", PyStr("Medium Shot"))
    IN  IF ~IsInt(scene_id) THEN Raise("TypeError")
        ELSE Ok([pov |-> [camera_perspective |->
                              generate_camera_pov(character, camera_angle, scene_id),
                          narrative_focus |->
                              generate_narrative_pov(character, phase, scene_id),
                          editing_notes |->
                              generate_editing_notes(phase, character, scene_id)],
                 metadata |-> [focal_character |-> get_character_name(character),
                               emotional_tone |-> get_emotional_tone(phase, character),
                               scene_purpose |-> Fmt(phase) \o " - " \o get_phase_purpose(phase),
                               timestamp_seconds |-> (scene_id.i - 1) * 7,
                               duration_seconds |-> 7]])

\* Mutant: the duration is that of the 13-scene format whatever the count.
generate_video_metadata_FixedDuration(scene_list) ==
    IF \E k \in 1..Len(scene_list) : ~IsStr(Get(scene_list[k], "dialogue", PyStr("")))
    THEN Raise("TypeError")
    ELSE Ok([total_scenes |-> Len(scene_list),
             duration_seconds |-> 13 * 7])

\* generate_video_metadata(title, scenes, seo_data, ...): the scene count and
\* the duration; joining the dialogues for the hooks raises on a dialogue that
\* is not a str.
generate_video_metadata(scene_list) ==
    IF \E k \in 1..Len(scene_list) : ~IsStr(Get(scene_list[k], "dialogue", PyStr("")))
    THEN Raise("TypeError")
    ELSE Ok([total_scenes |-> Len(scene_list),
             duration_seconds |-> Len(scene_list) * 7])

\* " ".join([s.get("dialogue", "") for s in scenes]) for str dialogues
RECURSIVE JoinDialogues(_, _)
JoinDialogues(scene_list, k) ==
    IF k > Len(scene_list) THEN ""
    ELSE Get(scene_list[k], "dialogue", PyStr("")).s
         \o (IF k < Len(scene_list) THEN " " ELSE "")
         \o JoinDialogues(scene_list, k + 1)

\* The keyword groups of generate_onscreen_hooks and the hooks each appends.
ToxicWords == {"pay", "bills", "deserve", "entitled", "prize"}
RelationshipWords == {"man", "woman", "date", "marriage", "breakfast"}
LogicWords == {"logic", "sense", "why", "how"}

ToxicHooks ==
    <<"POV: The Toxic Council", "POV: Entitlement Mentality", "POV: Slay Queen Logic">>
RelationshipHooks ==
    <<"POV: Modern Relationships", "POV: High Value Standards", "POV: Breakfast Served Hot">>
LogicHooks ==
    <<"POV: Logic Applied", "POV: The Logic Trap", "POV: No Gree For Anybody">>

\* unique_hooks of generate_onscreen_hooks: the first occurrences, order kept.
RECURSIVE Unique(_, _)
Unique(hooks, k) ==
    IF k > Len(hooks) THEN <<>>
    ELSE (IF \E j \in 1..(k - 1) : hooks[j] = hooks[k] THEN <<>> ELSE <<hooks[k]>>)
         \o Unique(hooks, k + 1)

\* Mutant: the relationship hooks are appended before the toxic ones.
generate_onscreen_hooks_RelationshipFirst(seo, scene_list) ==
    IF \E k \in 1..Len(scene_list) : ~IsStr(Get(scene_list[k], "dialogue", PyStr("")))
    THEN Raise("TypeError")
    ELSE LET script_text == Lower(JoinDialogues(scene_list, 1))
             is_toxic == \E word \in ToxicWords : Contains(word, script_text)
             is_relationship == \E word \in RelationshipWords : Contains(word, script_text)
             is_logic == \E word \in LogicWords : Contains(word, script_text)
             raw_title == Get(seo, "title", "Naija Stoic Logic")
             hooks == <<"POV: " \o raw_title>>
                      \o (IF is_relationship THEN RelationshipHooks ELSE <<>>)
                      \o (IF is_toxic THEN ToxicHooks ELSE <<>>)
                      \o (IF is_logic THEN LogicHooks ELSE <<>>)
             unique_hooks == Unique(hooks, 1)
         IN  Ok(SubSeq(unique_hooks, 1, Min(5, Len(unique_hooks))))

\* generate_onscreen_hooks(seo_data, scenes)
generate_onscreen_hooks(seo, scene_list) ==
    IF \E k \in 1..Len(scene_list) : ~IsStr(Get(scene_list[k], "dialogue", PyStr("")))
    THEN Raise("TypeError")
    ELSE LET script_text == Lower(JoinDialogues(scene_list, 1))
             is_toxic == \E word \in ToxicWords : Contains(word, script_text)
             is_relationship == \E word \in RelationshipWords : Contains(word, script_text)
             is_logic == \E word \in LogicWords : Contains(word, script_text)
             raw_title == Get(seo, "title", "Naija Stoic Logic")
             hooks == <<"POV: " \o raw_title>>
                      \o (IF is_toxic THEN ToxicHooks ELSE <<>>)
                      \o (IF is_relationship THEN RelationshipHooks ELSE <<>>)
                      \o (IF is_logic THEN LogicHooks ELSE <<>>)
             unique_hooks == Unique(hooks, 1)
         IN  Ok(SubSeq(unique_hooks, 1, Min(5, Len(unique_hooks))))

\* The number of scenes whose character is the given role.
RECURSIVE CountCharacter(_, _, _)
CountCharacter(scene_list, role, k) ==
    IF k > Len(scene_list) THEN 0
    ELSE (IF Get(scene_list[k], "character", PyNone) = PyStr(role) THEN 1 ELSE 0)
         + CountCharacter(scene_list, role, k + 1)

\* dict.copy() followed by the assignment of the given entries
WithEntries(seo, entries) ==
    [key \in DOMAIN seo \cup DOMAIN entries |->
        IF key \in DOMAIN entries THEN entries[key] ELSE seo[key]]

\* Mutant: a tie counts for the protagonist.
add_pov_context_to_seo_TieToProtagonist(seo, scene_list) ==
    LET protag_count == CountCharacter(scene_list, "protagonist", 1)
        antag_count == CountCharacter(scene_list, "antagonist", 1)
        pov_context ==
            IF protag_count >= antag_count
            THEN "Male protagonist defending against entitled demands with stoic logic"
            ELSE "Female antagonist making demands, protagonist responds with logic"
    IN  WithEntries(seo,
            [pov_context |-> pov_context,
             primary_character |-> IF protag_count >= antag_count
                                   THEN "Odogwu (Protagonist)" ELSE "Chioma (Antagonist)",
             narrative_style |-> "Stoic Logic - No Gree For Anybody"])

\* add_pov_context_to_seo(seo_data, scenes)
add_pov_context_to_seo(seo, scene_list) ==
    LET protag_count == CountCharacter(scene_list, "protagonist", 1)
        antag_count == CountCharacter(scene_list, "antagonist", 1)
        pov_context ==
            IF protag_count > antag_count
            THEN "Male protagonist defending against entitled demands with stoic logic"
            ELSE IF antag_count > protag_count
            THEN "Female antagonist making demands, protagonist responds with logic"
            ELSE "Balanced dialogue showing logic vs emotion conflict"
    IN  WithEntries(seo,
            [pov_context |-> pov_context,
             primary_character |-> IF protag_count >= antag_count
                                   THEN "Odogwu (Protagonist)" ELSE "Chioma (Antagonist)",
             narrative_style |-> "Stoic Logic - No Gree For Anybody"])

\* ---------------------------------------------------------- seo_mapper.py
\* get_default_seo(), its title without the emoji
get_default_seo ==
    [title |-> "Naija Stoic Logic",
     tags |-> <<"Stoicism", "Nigeria", "Relationships", "Logic">>,
     hashtags |-> <<"#nogreeforanybody", "#naija", "#stoic", "#logic">>]

\* ------------------------------------------------------------------- app.py
\* The multi-location branch of render_script_transformer: the scenes of every
\* location in order, each stamped with its location's description.
RECURSIVE FlattenFrom(_, _)
FlattenFrom(locations, k) ==
    IF k > Len(locations) THEN <<>>
    ELSE LET loc == locations[k]
             inner == Get(loc, "scenes", <<>>)
             stamp == Get(loc, "location_description", PyNone)
         IN  [j \in 1..Len(inner) |-> ("location_description" :> stamp) @@ inner[j]]
             \o FlattenFrom(locations, k + 1)

\* scenes, as render_script_transformer extracts them from the oracle's result
ExtractScenes(result, mode) ==
    IF mode = "multi" THEN FlattenFrom(Get(result, "locations", <<>>), 1)
    ELSE result.scenes

\* validation, as render_script_transformer computes it
ValidateForMode(scene_list, mode) ==
    IF mode = "single" THEN validate_scene_structure(scene_list)
    ELSE Ok([valid |-> TRUE, issues |-> <<>>])

\* Mutant: the watch rule is tested ahead of the car rule.
MatchedRule_WatchBeforeCar(script_lower) ==
    LET has(word) == Contains(word, script_lower)
    IN  IF has("jacket") \/ has("leather") THEN "jacket"
        ELSE IF has("watch") THEN "watch"
        ELSE IF has("car") \/ has("vehicle") \/ has("drive") THEN "car"
        ELSE IF has("shoes") \/ has("heels") THEN "shoes"
        ELSE IF has("bag") \/ has("purse") \/ has("handbag") THEN "bag"
        ELSE IF has("dress") /\ has("wear") THEN "dress"
        ELSE IF has("jewelry") \/ has("diamond") THEN "jewelry"
        ELSE "none"

\* extract_story_context: the rule of the keyword chain that fires on the
\* lower-cased script, the first in priority order.
MatchedRule(script_lower) ==
    LET has(word) == Contains(word, script_lower)
    IN  IF has("jacket") \/ has("leather") THEN "jacket"
        ELSE IF has("car") \/ has("vehicle") \/ has("drive") THEN "car"
        ELSE IF has("shoes") \/ has("heels") THEN "shoes"
        ELSE IF has("watch") THEN "watch"
        ELSE IF has("bag") \/ has("purse") \/ has("handbag") THEN "bag"
        ELSE IF has("dress") /\ has("wear") THEN "dress"
        ELSE IF has("jewelry") \/ has("diamond") THEN "jewelry"
        ELSE "none"

LeatherJacketOutfit == "wearing a black leather jacket over a white t-shirt and dark jeans"
LuxuryWatchOutfit ==
    "wearing a smart-casual blazer with an expensive luxury watch prominently visible on his wrist"

\* The outfits extract_story_context draws before it looks at the keywords.
DrawnOutfits(r) ==
    [odogwu |-> PyStr(Choice(OUTFIT_POOL_ODOGWU, r)),
     chioma |-> PyStr(Choice(OUTFIT_POOL_ANTAGONIST, r))]

\* The context after the keyword rule has amended the drawn outfits.
RuleContext(rule, drawn) ==
    CASE rule = "jacket" ->
            [prop_description |-> "",
             outfit_changes |-> [drawn EXCEPT !.odogwu = PyStr(LeatherJacketOutfit)]]
      [] rule = "car" ->
            [prop_description |-> "a luxury car visible in the driveway through the window",
             outfit_changes |-> drawn]
      [] rule = "shoes" ->
            [prop_description |-> "designer shoes displayed prominently on a shelf",
             outfit_changes |-> drawn]
      [] rule = "watch" ->
            [prop_description |-> "",
             outfit_changes |-> [drawn EXCEPT !.odogwu = PyStr(LuxuryWatchOutfit)]]
      [] rule = "bag" ->
            [prop_description |-> "a designer handbag prominently placed on a nearby table",
             outfit_changes |-> drawn]
      [] rule = "dress" ->
            [prop_description |-> "elegant dresses hanging in the wardrobe",
             outfit_changes |-> drawn]
      [] rule = "jewelry" ->
            [prop_description |-> "expensive jewelry on display",
             outfit_changes |-> drawn]
      [] OTHER -> [prop_description |-> "", outfit_changes |-> drawn]

EmptyStoryContext == [prop_description |-> "", outfit_changes |-> <<>>]

\* Mutant: the jacket rule leaves the drawn outfit in place.
extract_story_context_KeepsDraw(script, r) ==
    IF script = "" THEN EmptyStoryContext
    ELSE LET rule == MatchedRule(Lower(script))
         IN  RuleContext(IF rule = "jacket" THEN "none" ELSE rule,
                         DrawnOutfits(r))

\* extract_story_context(script); r is the outcome of the random source in
\* this call.
extract_story_context(script, r) ==
    IF script = "" THEN EmptyStoryContext
    ELSE RuleContext(MatchedRule(Lower(script)), DrawnOutfits(r))

\* motion_ctx_str of build_complete_output
MotionContext(visual_context) ==
    IF visual_context.is_dict THEN Fmt(Get(visual_context.d, "style", PyStr("")))
    ELSE visual_context.s

\* The body of build_complete_output's loop: the bundle of one parsed scene.
\* r_image and r_condensed are the outcomes of the random source in the two
\* image composers.
scene_output(scene, style, visual_context, outfit_overrides, r_image, r_condensed) ==
    LET scene_metadata == generate_scene_metadata(scene)
        image_prompt == generate_image_prompt(scene, style.variation, style.animation_style,
                                              visual_context, outfit_overrides, r_image)
        condensed_prompt == generate_image_prompt_condensed(scene, style.variation,
                                style.animation_style, visual_context, r_condensed)
        motion_prompt == generate_motion_prompt(scene, MotionContext(visual_context),
                                                style.aesthetic_type)
    IN  IF scene_metadata.raised # "" THEN scene_metadata
        ELSE IF image_prompt.raised # "" THEN image_prompt
        ELSE IF condensed_prompt.raised # "" THEN condensed_prompt
        ELSE IF motion_prompt.raised # "" THEN motion_prompt
        ELSE Ok([scene_id |-> Get(scene, "scene_id", PyNone),
                 shot_type |-> Get(scene, "camera_angle", PyStr("Medium Shot")),
                 dialogue |-> Get(scene, "dialogue", PyNone),
                 pov |-> scene_metadata.value.pov,
                 metadata |-> scene_metadata.value.metadata,
                 image_prompt |-> image_prompt.value,
                 condensed_prompt |-> condensed_prompt.value,
                 i2v_motion_prompt |-> motion_prompt.value,
                 sfx |-> suggest_sfx(scene)])

\* ------------------------------------------------------------------- inputs
\* Raw scenes as the module's own self-test and test_modules.py write them.
TestDialogue(k) == "Test dialogue for scene " \o ToString(k)

BaseScene(k, with_id) ==
    IF with_id THEN [scene_id |-> PyInt(k), dialogue |-> PyStr(TestDialogue(k))]
    ELSE [dialogue |-> PyStr(TestDialogue(k))]

RECURSIVE Words(_)
Words(n) == IF n = 0 THEN "" ELSE IF n = 1 THEN "abeg" ELSE "abeg " \o Words(n - 1)

\* What the oracle may do to one record: leave a key out, or fill it oddly.
Put(key, v) == [drop |-> {}, put |-> key :> v]
Drop(key) == [drop |-> {key}, put |-> <<>>]
NoDeviation == [drop |-> {}, put |-> <<>>]

Deviations ==
    {NoDeviation,
     Drop("scene_id"), Put("scene_id", PyNone), Put("scene_id", PyStr("1")),
     Put("scene_id", PyInt(0)), Put("scene_id", PyInt(-9)), Put("scene_id", PyInt(1)),
     Put("scene_id", PyInt(99)),
     Drop("dialogue"), Put("dialogue", PyNone), Put("dialogue", PyStr("")),
     Put("dialogue", PyStr(" \t ")), Put("dialogue", PyStr(Words(20))),
     Put("dialogue", PyStr(Words(21))),
     Put("duration", PyStr("99-999s")),
     Put("phase", PyStr("Pivot")), Put("phase", PyStr("")), Put("phase", PyNone),
     Put("character", PyStr("both")), Put("character", PyNone),
     Put("camera_angle", PyStr("Wide")), Put("shot_type", PyStr("")),
     Put("description", PyStr("Odogwu enters")),
     Put("action_description", PyStr("waving")),
     Put("location_description", PyStr("Lagos rooftop lounge"))}

Deviate(scene, dev) ==
    dev.put @@ [key \in (DOMAIN scene \ dev.drop) |-> scene[key]]

\* n raw scenes numbered 1..n, the one at position p deviating by dev.
RawScenes(n, with_id, p, dev) ==
    [k \in 1..n |-> IF k = p THEN Deviate(BaseScene(k, with_id), dev)
                    ELSE BaseScene(k, with_id)]

\* The same scenes spread over two locations, the first split of them in the
\* first; the second location carries no description.
RawLocations(raw, split) ==
    <<[location_id |-> PyInt(1),
       location_description |-> PyStr("busy Balogun market stall"),
       scenes |-> SubSeq(raw, 1, split)],
      [location_id |-> PyInt(2),
       scenes |-> SubSeq(raw, split + 1, Len(raw))]>>

Splits(n) == {0, n \div 2}

\* The same, with the scenes of the second location numbered from 1 again, as
\* the output format shown to the oracle numbers them.
RestartedLocations(raw, split) ==
    LET located == RawLocations(raw, split)
    IN  <<located[1],
          [located[2] EXCEPT !.scenes =
              [k \in 1..Len(@) |-> [@[k] EXCEPT !.scene_id = PyInt(k)]]]>>

OracleResults(mode, max) ==
    LET deviated == UNION {{RawScenes(n, with_id, p, dev) :
                            with_id \in BOOLEAN, p \in {1, 3, n}, dev \in Deviations} :
                        n \in 0..max}
        long == {RawScenes(n, TRUE, 1, NoDeviation) : n \in (max + 1)..MaxLongScenes}
        lists == deviated \cup long
        restarted == {[locations |->
                          RestartedLocations(RawScenes(n, TRUE, 1, NoDeviation), n \div 2)] :
                      n \in 2..max}
    IN  IF mode = "single" THEN {[scenes |-> raw] : raw \in lists}
        ELSE restarted
             \cup UNION {{[locations |-> RawLocations(raw, split)] : split \in Splits(Len(raw))} :
                            raw \in lists}

\* --------------------------------------------------- inputs of a full request
\* Source scripts the user pastes; "" is build_complete_output's default.
Scripts ==
    {"", "No keyword here", "He wore a Leather Jacket", "my JACKET and my watch",
     "She wants a new car and a watch", "Nice watch"}

\* Scripts that mention the keywords of the later rules, alone and together.
KeywordScripts ==
    {"Drive me to buy heels", "new shoes and a designer bag", "her purse",
     "I wear this dress with a diamond", "a dress", "diamond ring"}

BaseScript == "No keyword here"

\* The visual context render_script_transformer builds from the setting the
\* oracle extracted.
BaseVisualContext ==
    VcDict([style |-> PyStr("Cinematic 3D CGI Animation"),
            location |-> PyStr("cozy Lekki apartment living room")])

\* Visual contexts: none (str or dict), the extracted setting, a frame analysis.
VisualContexts ==
    {VcStr(""), VcStr("handheld documentary"), VcDict(<<>>), BaseVisualContext,
     VcDict([style |-> PyStr("Smooth anime"), location |-> PyStr(""),
             posture |-> PyStr("both seated")])}

\* The style selections of the session, the defaults first.
BaseStyle == [variation |-> "default", animation_style |-> "2d_lofi", aesthetic_type |-> "2D"]

Styles ==
    {BaseStyle,
     [variation |-> "luxury", animation_style |-> "3d_cgi", aesthetic_type |-> "3d"],
     [variation |-> "neon", animation_style |-> "claymation", aesthetic_type |-> "2d"]}

ComposeDeviations ==
    {NoDeviation,
     Drop("scene_id"), Put("scene_id", PyNone), Put("scene_id", PyInt(13)),
     Put("dialogue", PyNone),
     Put("character", PyStr("Mom")), Put("character", PyStr("both")),
     Put("character", PyInt(7)),
     Put("camera_angle", PyStr("Wide")), Put("camera_angle", PyInt(7)),
     Put("phase", PyStr("Climax")),
     Put("action_description", PyStr("waving")),
     Put("location_description", PyStr("Lagos rooftop lounge"))}

\* The oracle's result for a raw list in the given story mode.
ResultsOf(mode, lists) ==
    IF mode = "single" THEN {[scenes |-> raw] : raw \in lists}
    ELSE UNION {{[locations |-> RawLocations(raw, split)] : split \in Splits(Len(raw))} :
                    raw \in lists}

Request(mode, res, script, vc, st) ==
    [story_mode |-> mode, result |-> res, original_script |-> script,
     visual_context |-> vc, style |-> st]

\* The requests explored: every deviation of a short list under the base
\* context, every script over the undeviated lists, every visual context
\* and style over one-scene lists, the keyword scripts over the one-scene list,
\* and one- and two-scene lists without a setting (the visual context is then
\* the empty dict).
ComposeRequests ==
    LET deviated == UNION {{RawScenes(n, TRUE, p, dev) :
                                p \in {1, n}, dev \in ComposeDeviations} :
                           n \in 0..MaxComposeScenes}
        plain == {RawScenes(n, TRUE, 1, NoDeviation) : n \in 1..MaxComposeScenes}
        single == {RawScenes(1, TRUE, 1, dev) :
                      dev \in {NoDeviation, Put("camera_angle", PyStr("Wide")),
                               Put("location_description", PyStr("Lagos rooftop lounge"))}}
    IN  UNION {
          {Request(mode, res, BaseScript, BaseVisualContext, BaseStyle) :
              res \in ResultsOf(mode, deviated)}
          \cup {Request(mode, res, script, BaseVisualContext, BaseStyle) :
              res \in ResultsOf(mode, plain), script \in Scripts}
          \cup {Request(mode, res, BaseScript, vc, st) :
              res \in ResultsOf(mode, single), vc \in VisualContexts, st \in Styles}
          \cup {Request(mode, res, script, BaseVisualContext, BaseStyle) :
              res \in ResultsOf(mode, {RawScenes(1, TRUE, 1, NoDeviation)}),
              script \in KeywordScripts}
          \cup {Request(mode, res, BaseScript, VcDict(<<>>), BaseStyle) :
              res \in ResultsOf(mode, {RawScenes(n, TRUE, 1, NoDeviation) : n \in 1..2})}
          : mode \in {"single", "multi"}}

\* ------------------------------------------------------------------- state
VARIABLES
    pc,                 \* position of the request
    story_mode,         \* "single" or "multi"
    result,             \* what the script oracle returned
    scenes,             \* the raw scene list extracted from result
    validation,         \* validate_scene_structure on the raw scenes
    parsed,             \* parse_scenes on the raw scenes
    parsed_validation,  \* validate_scene_structure on the parsed scenes
    original_script,    \* the source script of the request
    visual_context,     \* the visual context of the request
    style,              \* the style selections of the session
    story_context,      \* extract_story_context on the script
    video_metadata,     \* generate_video_metadata on the raw scenes
    output,             \* output["scenes"], the bundles composed so far
    scene_setup,        \* generate_scene_setup_prompt's text, "" before it ran
    motion_prompts,     \* generate_motion_prompt on every parsed scene
    seo_data,           \* the SEO record of the request
    enhanced_seo,       \* add_pov_context_to_seo's record
    onscreen_hooks      \* generate_onscreen_hooks' list

vars == <<pc, story_mode, result, scenes, validation, parsed, parsed_validation,
          original_script, visual_context, style, story_context, video_metadata, output,
          scene_setup, motion_prompts, seo_data, enhanced_seo, onscreen_hooks>>

request == <<story_mode, result, original_script, visual_context, style>>
composition == <<story_context, video_metadata, output>>
prompts == <<scene_setup, motion_prompts>>
seo == <<seo_data, enhanced_seo, onscreen_hooks>>

Pending == [raised |-> "pending", value |-> <<>>]

\* ------------------------------------------- the normalizer and the validator
Init ==
    /\ pc = "start"
    /\ story_mode \in {"single", "multi"}
    /\ result \in OracleResults(story_mode, MaxScenes)
    /\ original_script = BaseScript
    /\ visual_context = BaseVisualContext
    /\ style = BaseStyle
    /\ scenes = <<>>
    /\ validation = Pending
    /\ parsed = Pending
    /\ parsed_validation = Pending
    /\ story_context = Pending
    /\ video_metadata = Pending
    /\ output = <<>>
    /\ scene_setup = ""
    /\ motion_prompts = <<>>
    /\ seo_data = get_default_seo
    /\ enhanced_seo = Pending
    /\ onscreen_hooks = Pending

\* render_script_transformer extracts the scene list.
Extract ==
    /\ pc = "start"
    /\ scenes' = ExtractScenes(result, story_mode)
    /\ pc' = "extracted"
    /\ UNCHANGED <<request, validation, parsed, parsed_validation, composition, prompts, seo>>

\* validate_scene_structure on the raw list, as render_script_transformer calls it.
ValidateRaw ==
    /\ pc = "extracted"
    /\ validation' = validate_scene_structure(scenes)
    /\ pc' = "validated"
    /\ UNCHANGED <<request, scenes, parsed, parsed_validation, composition, prompts, seo>>

\* parse_scenes on the raw list.
ParseScenes ==
    /\ pc = "validated"
    /\ parsed' = parse_scenes(scenes, story_mode)
    /\ pc' = "parsed"
    /\ UNCHANGED <<request, scenes, validation, parsed_validation, composition, prompts, seo>>

\* validate_scene_structure on parse_scenes' output, as the self-tests call it.
ValidateParsed ==
    /\ pc = "parsed"
    /\ parsed.raised = ""
    /\ parsed_validation' = validate_scene_structure(parsed.value)
    /\ pc' = "done"
    /\ UNCHANGED <<request, scenes, validation, parsed, composition, prompts, seo>>

\* generate_video_metadata on the raw list, as build_complete_output calls it.
VideoMetadata ==
    /\ pc = "done"
    /\ video_metadata' = generate_video_metadata(scenes)
    /\ pc' = "measured"
    /\ UNCHANGED <<request, scenes, validation, parsed, parsed_validation,
                   story_context, output, prompts, seo>>

\* generate_motion_prompt on every parsed scene, as build_complete_output's
\* loop calls it.
MotionPrompts ==
    /\ pc = "measured"
    /\ motion_prompts' =
        [k \in 1..Len(parsed.value) |->
            generate_motion_prompt(parsed.value[k], MotionContext(visual_context),
                                   style.aesthetic_type)]
    /\ pc' = "animated"
    /\ UNCHANGED <<request, scenes, validation, parsed, parsed_validation, composition,
                   scene_setup, seo>>

Next ==
    Extract \/ ValidateRaw \/ ParseScenes \/ ValidateParsed \/ VideoMetadata \/ MotionPrompts

Spec == Init /\ [][Next]_vars

\* ------------------------------------------------- the request, end to end
InitCompose ==
    /\ pc = "request"
    /\ \E req \in ComposeRequests :
        /\ story_mode = req.story_mode
        /\ result = req.result
        /\ original_script = req.original_script
        /\ visual_context = req.visual_context
        /\ style = req.style
    /\ scenes = <<>>
    /\ validation = Pending
    /\ parsed = Pending
    /\ parsed_validation = Pending
    /\ story_context = Pending
    /\ video_metadata = Pending
    /\ output = <<>>
    /\ scene_setup = ""
    /\ motion_prompts = <<>>
    /\ seo_data = get_default_seo
    /\ enhanced_seo = Pending
    /\ onscreen_hooks = Pending

\* render_script_transformer after the oracle's answer: it extracts the scene
\* list and validates it (single-location mode only).  An exception ends the
\* request.
Transform ==
    /\ pc = "request"
    /\ scenes' = ExtractScenes(result, story_mode)
    /\ validation' = ValidateForMode(scenes', story_mode)
    /\ pc' = IF validation'.raised # "" THEN "raised" ELSE "transformed"
    /\ UNCHANGED <<request, parsed, parsed_validation, composition, prompts, seo>>

\* build_complete_output up to its loop: the story context, the video metadata
\* and the parsed scenes.  An exception ends the request.  The scene setup
\* prompt and the reference prompts, which nothing in the loop reads, are
\* composed under SpecSetup.
BuildBegin ==
    /\ pc = "transformed"
    /\ \E r \in Outcomes : story_context' = extract_story_context(original_script, r)
    /\ video_metadata' = generate_video_metadata(scenes)
    /\ parsed' = IF video_metadata'.raised # "" THEN Pending
                 ELSE parse_scenes(scenes, story_mode)
    /\ pc' = IF video_metadata'.raised # "" \/ parsed'.raised # ""
             THEN "raised" ELSE "composing"
    /\ output' = <<>>
    /\ UNCHANGED <<request, scenes, validation, parsed_validation, prompts, seo>>

\* One iteration of build_complete_output's loop: the bundle of the next parsed
\* scene is appended.  An exception ends the request.
ComposeScene ==
    /\ pc = "composing"
    /\ Len(output) < Len(parsed.value)
    /\ \E r_image \in Outcomes, r_condensed \in Outcomes :
        LET bundle == scene_output(parsed.value[Len(output) + 1], style, visual_context,
                                   story_context.outfit_changes, r_image, r_condensed)
        IN  IF bundle.raised # ""
            THEN pc' = "raised" /\ output' = output
            ELSE pc' = pc /\ output' = Append(output, bundle.value)
    /\ UNCHANGED <<request, scenes, validation, parsed, parsed_validation,
                   story_context, video_metadata, prompts, seo>>

\* build_complete_output returns the package.
ReturnOutput ==
    /\ pc = "composing"
    /\ Len(output) = Len(parsed.value)
    /\ pc' = "built"
    /\ UNCHANGED <<request, scenes, validation, parsed, parsed_validation, composition,
                   prompts, seo>>

NextCompose == Transform \/ BuildBegin \/ ComposeScene \/ ReturnOutput

SpecCompose == InitCompose /\ [][NextCompose]_vars

\* ------------------------------------------------- the scene setup prompt
\* Visual contexts of the scene setup: those of a request, the frame analysis
\* of a recreated video and a setting that carries a location alone.
SetupVisualContexts ==
    VisualContexts
    \cup {VcDict([style |-> PyStr("Neon"), location |-> PyStr("Cyberpunk Market")]),
          VcDict([location |-> PyStr("A muddy mechanic workshop in Yaba")])}

\* build_complete_output has extracted the story context of the script.
InitSetup ==
    /\ pc = "context"
    /\ story_mode = "single"
    /\ result = [scenes |-> <<>>]
    /\ original_script \in Scripts \cup KeywordScripts
    /\ visual_context \in SetupVisualContexts
    /\ style \in Styles
    /\ \E r \in Outcomes : story_context = extract_story_context(original_script, r)
    /\ scenes = <<>>
    /\ validation = Pending
    /\ parsed = Pending
    /\ parsed_validation = Pending
    /\ video_metadata = Pending
    /\ output = <<>>
    /\ scene_setup = ""
    /\ motion_prompts = <<>>
    /\ seo_data = get_default_seo
    /\ enhanced_seo = Pending
    /\ onscreen_hooks = Pending

\* output["scene_setup"] of build_complete_output.
SceneSetup ==
    /\ pc = "context"
    /\ \E r \in Outcomes :
        scene_setup' = generate_scene_setup_prompt(style.animation_style, story_context,
                                                   visual_context, r)
    /\ pc' = "setup"
    /\ UNCHANGED <<request, scenes, validation, parsed, parsed_validation, composition,
                   motion_prompts, seo>>

NextSetup == SceneSetup

SpecSetup == InitSetup /\ [][NextSetup]_vars

\* ------------------------------------------- the SEO record and the hooks
\* SEO records: the default one, a matched row, one whose title was replaced
\* by a viral title that is also a canned hook, and one without a title.
SeoRecords ==
    {get_default_seo,
     [title |-> "When She Says You Must Pay", tags |-> <<"Bills", "Dating">>,
      hashtags |-> <<"#billing">>],
     [title |-> "The Toxic Council", tags |-> <<>>, hashtags |-> <<>>],
     [tags |-> <<"Logic">>, hashtags |-> <<"#naija">>]}

\* Raw scenes as the oracle writes them: a dialogue with or without the
\* keywords of the hook groups, a character that is a role, a name or absent.
SeoScenes ==
    {[scene_id |-> PyInt(1), character |-> PyStr("antagonist"),
      dialogue |-> PyStr("You must PAY my bills")],
     [scene_id |-> PyInt(2), character |-> PyStr("protagonist"),
      dialogue |-> PyStr("Why? Show me the logic.")],
     [scene_id |-> PyInt(3), character |-> PyStr("antagonist"),
      dialogue |-> PyStr("Which man go gree for that")],
     [scene_id |-> PyInt(4), dialogue |-> PyStr("Abeg no vex")],
     [scene_id |-> PyInt(5), character |-> PyStr("both"),
      dialogue |-> PyStr("Breakfast don land")],
     [scene_id |-> PyInt(6), character |-> PyStr("Chioma"),
      dialogue |-> PyStr("Somehow e pain me")],
     [scene_id |-> PyInt(7), character |-> PyStr("antagonist"), dialogue |-> PyNone]}

RECURSIVE SceneLists(_)
SceneLists(n) ==
    IF n = 0 THEN {<<>>}
    ELSE SceneLists(n - 1)
         \cup {Append(list, sc) : list \in {l \in SceneLists(n - 1) : Len(l) = n - 1},
                                  sc \in SeoScenes}

\* build_complete_output has been handed the raw scenes and the SEO record.
InitSeo ==
    /\ pc = "seo"
    /\ story_mode = "single"
    /\ result = [scenes |-> <<>>]
    /\ original_script = BaseScript
    /\ visual_context = BaseVisualContext
    /\ style = BaseStyle
    /\ scenes \in SceneLists(MaxSeoScenes)
    /\ seo_data \in SeoRecords
    /\ validation = Pending
    /\ parsed = Pending
    /\ parsed_validation = Pending
    /\ story_context = Pending
    /\ video_metadata = Pending
    /\ output = <<>>
    /\ scene_setup = ""
    /\ motion_prompts = <<>>
    /\ enhanced_seo = Pending
    /\ onscreen_hooks = Pending

\* enhanced_seo of build_complete_output.
AddPovContext ==
    /\ pc = "seo"
    /\ enhanced_seo' = add_pov_context_to_seo(seo_data, scenes)
    /\ pc' = "enhanced"
    /\ UNCHANGED <<request, scenes, validation, parsed, parsed_validation, composition,
                   prompts, seo_data, onscreen_hooks>>

\* video_metadata["onscreen_hooks"]: generate_video_metadata hands the enhanced
\* record and the raw scenes to generate_onscreen_hooks.
OnscreenHooks ==
    /\ pc = "enhanced"
    /\ onscreen_hooks' = generate_onscreen_hooks(enhanced_seo, scenes)
    /\ pc' = "hooked"
    /\ UNCHANGED <<request, scenes, validation, parsed, parsed_validation, composition,
                   prompts, seo_data, enhanced_seo>>

NextSeo == AddPovContext \/ OnscreenHooks

SpecSeo == InitSeo /\ [][NextSeo]_vars

\* ------------------------------------------------------------------- claims
\* C1: for every raw scene list and story mode, parse_scenes gives the scene at
\* 0-based list position i the duration "i*7-(i+1)*7s", whatever duration the
\* raw record carried.
C1_DurationIsPositional ==
    parsed.raised = "" =>
        \A k \in 1..Len(parsed.value) :
            parsed.value[k].duration =
                PyStr(ToString((k - 1) * 7) \o "-" \o ToString(k * 7) \o "s")

\* A raw duration of "99-999s" on the third scene was normalized to "14-21s".
C1_Witness ==
    /\ parsed.raised = ""
    /\ Len(scenes) >= 3
    /\ Get(scenes[3], "duration", PyNone) = PyStr("99-999s")
    /\ parsed.value[3].duration = PyStr("14-21s")

\* The raw record leaves the template-derived fields to the template.
TemplateDerived(raw) ==
    \A f \in {"shot_type", "camera_angle", "phase", "character"} :
        ~Truthy(Get(raw, f, PyNone))

\* C2: in single-location mode every scene_id in 1..13 looks up a template with
\* a non-empty shot_type and camera_angle, a phase in {Hook, Build, Pivot, Dunk}
\* and a character in {protagonist, antagonist, both}; a normalized scene that
\* takes its fields from the template carries such values.
C2_TemplateComplete ==
    /\ \A id \in 1..13 :
        LET t == TemplateLookup(PyInt(id), "single", Len(scenes))
        IN  /\ t.raised = ""
            /\ t.value.shot_type # ""
            /\ t.value.camera_angle # ""
            /\ t.value.phase \in Phases
            /\ t.value.character \in Roles
    /\ (story_mode = "single" /\ parsed.raised = "") =>
        \A k \in 1..Len(parsed.value) :
            (TemplateDerived(scenes[k]) /\ parsed.value[k].scene_id.i \in 1..13) =>
                /\ Truthy(parsed.value[k].shot_type)
                /\ Truthy(parsed.value[k].camera_angle)
                /\ parsed.value[k].phase.s \in Phases
                /\ parsed.value[k].character.s \in Roles

\* Thirteen single-location scenes were normalized from the table alone.
C2_Witness ==
    /\ story_mode = "single"
    /\ parsed.raised = ""
    /\ Len(parsed.value) = 13
    /\ \A k \in 1..13 :
        /\ TemplateDerived(scenes[k])
        /\ parsed.value[k].scene_id = PyInt(k)
        /\ parsed.value[k].phase.s \in Phases
        /\ parsed.value[k].character.s \in Roles

IsOpening(sc) ==
    /\ sc.phase = PyStr("Hook")
    /\ sc.camera_angle = PyStr("Close-up")
    /\ sc.character = PyStr("antagonist")

IsCloser(sc) ==
    /\ sc.phase = PyStr("Dunk")
    /\ sc.camera_angle = PyStr("Close-up")
    /\ sc.character = PyStr("protagonist")

\* C3 as stated: in multi-location mode, for every total >= 1, the scene with
\* scene_id 1 resolves to Hook / Close-up / antagonist and the scene with
\* scene_id = total resolves to Dunk / Close-up / protagonist.
C3_OpeningAndCloser ==
    (story_mode = "multi" /\ parsed.raised = "") =>
        \A k \in 1..Len(parsed.value) :
            TemplateDerived(scenes[k]) =>
                /\ EqInt(parsed.value[k].scene_id, 1) => IsOpening(parsed.value[k])
                /\ EqInt(parsed.value[k].scene_id, Len(parsed.value)) =>
                        IsCloser(parsed.value[k])

\* C3 amended: the scene with scene_id 1 is the opening for every total >= 1;
\* the scene with scene_id = total is the closer for every total >= 2 (a lone
\* scene is the opening, not the closer).
C3_OpeningAndCloserFromTwo ==
    (story_mode = "multi" /\ parsed.raised = "") =>
        \A k \in 1..Len(parsed.value) :
            TemplateDerived(scenes[k]) =>
                /\ EqInt(parsed.value[k].scene_id, 1) => IsOpening(parsed.value[k])
                /\ (Len(parsed.value) >= 2
                    /\ EqInt(parsed.value[k].scene_id, Len(parsed.value))) =>
                        IsCloser(parsed.value[k])

\* Seven scenes from two locations (3 + 4): scene 1 opens, scene 7 closes.
C3_Witness ==
    /\ story_mode = "multi"
    /\ parsed.raised = ""
    /\ Len(result.locations[1].scenes) = 3
    /\ Len(result.locations[2].scenes) = 4
    /\ Len(parsed.value) = 7
    /\ \A k \in 1..7 : TemplateDerived(scenes[k]) /\ parsed.value[k].scene_id = PyInt(k)
    /\ IsOpening(parsed.value[1])
    /\ IsCloser(parsed.value[7])

\* C4: parse_scenes never raises, whatever fields of the raw records are absent,
\* empty, null or wrongly typed, in either story mode.
C4_ParseNeverRaises ==
    pc \in {"parsed", "done"} => parsed.raised = ""

DialogueOf(scene) == Get(scene, "dialogue", PyStr(""))

RuleCount(sc) == Len(sc) = 13
RuleIds(sc) == Len(sc) = 13 /\ \A k \in 1..13 : Get(sc[k], "scene_id", PyNone) = PyInt(k)
RuleNonBlank(sc) ==
    \A k \in 1..Len(sc) : IsStr(DialogueOf(sc[k])) /\ ~IsBlank(DialogueOf(sc[k]).s)
RuleLength(sc) ==
    \A k \in 1..Len(sc) : IsStr(DialogueOf(sc[k])) => WordCount(DialogueOf(sc[k]).s) <= 20

Reports(issues, text) == \E k \in 1..Len(issues) : Contains(text, issues[k])

\* C5: validate_scene_structure never raises; it returns valid = true exactly
\* when there are 13 scenes with scene_ids 1..13 in order, every dialogue
\* non-blank and none longer than 20 words, and otherwise reports each violated
\* rule in its issue list.
C5_ValidIffRules ==
    validation # Pending =>
        /\ validation.raised = ""
        /\ validation.value.valid <=>
            (RuleCount(scenes) /\ RuleIds(scenes) /\ RuleNonBlank(scenes) /\ RuleLength(scenes))
        /\ ~RuleCount(scenes) <=> Reports(validation.value.issues, "Expected 13 scenes, got ")
        /\ ~RuleIds(scenes) <=> Reports(validation.value.issues, "Scene IDs not sequential.")
        /\ ~RuleNonBlank(scenes) <=> Reports(validation.value.issues, " has no dialogue")
        /\ ~RuleLength(scenes) <=> Reports(validation.value.issues, " words (should be 10-15")

NumberedWithDialogue(sc) ==
    /\ Len(sc) >= 1
    /\ \A k \in 1..Len(sc) :
        /\ Get(sc[k], "scene_id", PyNone) = PyInt(k)
        /\ IsStr(DialogueOf(sc[k]))
        /\ ~IsBlank(DialogueOf(sc[k]).s)

\* C7: for raw scenes numbered 1..n in order, each with non-empty dialogue,
\* validate_scene_structure on the output of parse_scenes returns valid = true.
C7_ParsedListIsValid ==
    (pc = "done" /\ story_mode = "single" /\ NumberedWithDialogue(scenes)) =>
        parsed_validation.raised = "" /\ parsed_validation.value.valid

\* C6: a single-location request with n # 13 scenes is reported invalid with
\* the issue "Expected 13 scenes, got n", and normalization and composition
\* complete without raising and produce exactly n scene bundles.
C6_ShortListStillComposes ==
    (story_mode = "single" /\ pc \in {"built", "raised"} /\ Len(scenes) # 13) =>
        /\ validation.raised = ""
        /\ ~validation.value.valid
        /\ \E k \in 1..Len(validation.value.issues) :
            validation.value.issues[k] = "Expected 13 scenes, got " \o ToString(Len(scenes))
        /\ pc = "built"
        /\ Len(output) = Len(scenes)

\* The outfit key generate_image_prompt looks up for a scene whose character
\* is a str.
OutfitKeyOf(scene) ==
    OutfitKey(FocusCharacter(Lower(scene.character.s), scene.character.s, 0).is_female)

\* The continuity context fixes the scene's outfit and its location.
ContinuityFixed(scene) ==
    /\ IsStr(scene.character)
    /\ Truthy(Get(story_context.outfit_changes, OutfitKeyOf(scene), PyNone))
    /\ \/ Truthy(scene.location_context)
       \/ visual_context.is_dict /\ Truthy(Get(visual_context.d, "location", PyNone))

\* C8: with the outfit and the location fixed by the continuity context, two
\* compositions of the same scene with the same style arguments give the same
\* bundle: no outcome of the random source influences it.
C8_ComposerDeterministic ==
    pc \in {"composing", "built"} =>
        \A k \in 1..Len(parsed.value) :
            ContinuityFixed(parsed.value[k]) =>
                \A r1 \in Outcomes, r2 \in Outcomes, r3 \in Outcomes, r4 \in Outcomes :
                    scene_output(parsed.value[k], style, visual_context,
                                 story_context.outfit_changes, r1, r2)
                    = scene_output(parsed.value[k], style, visual_context,
                                   story_context.outfit_changes, r3, r4)

\* Every outfit a character style can name.
KnownOutfits ==
    {OUTFIT_POOL_ODOGWU[k] : k \in 1..Len(OUTFIT_POOL_ODOGWU)}
    \cup {OUTFIT_POOL_ANTAGONIST[k] : k \in 1..Len(OUTFIT_POOL_ANTAGONIST)}
    \cup {LeatherJacketOutfit, LuxuryWatchOutfit}

\* The image prompt dresses its character in the outfit.
Carries(image_prompt, outfit) == Contains(", wearing " \o outfit \o ", with ", image_prompt)

\* C9: within one build_complete_output request, the scenes of the same
\* character (protagonist or antagonist) carry the same outfit in their image
\* prompts.
C9_OutfitStable ==
    pc = "built" =>
        \A j \in 1..Len(output), k \in 1..Len(output) :
            (/\ parsed.value[j].character = parsed.value[k].character
             /\ parsed.value[j].character.t = "str"
             /\ parsed.value[j].character.s \in {"protagonist", "antagonist"}) =>
                \A outfit \in KnownOutfits :
                    Carries(output[j].image_prompt, outfit)
                    <=> Carries(output[k].image_prompt, outfit)

MentionsJacket(script) ==
    Contains("jacket", Lower(script)) \/ Contains("leather", Lower(script))

\* C10: for every script whose lower-cased text contains "jacket" or "leather",
\* the protagonist outfit of the story context is the forced black leather
\* jacket outfit, not an outfit of the pool.
C10_JacketForcesOutfit ==
    (story_context # Pending /\ MentionsJacket(original_script)) =>
        /\ story_context.outfit_changes.odogwu =
            PyStr("wearing a black leather jacket over a white t-shirt and dark jeans")
        /\ \A k \in 1..Len(OUTFIT_POOL_ODOGWU) :
            story_context.outfit_changes.odogwu # PyStr(OUTFIT_POOL_ODOGWU[k])

\* "my JACKET and my watch": the jacket rule won over the draw and the watch.
C10_Witness ==
    /\ story_context # Pending
    /\ original_script = "my JACKET and my watch"
    /\ story_context.outfit_changes.odogwu =
        PyStr("wearing a black leather jacket over a white t-shirt and dark jeans")
    /\ story_context.outfit_changes.chioma \in
        {PyStr(OUTFIT_POOL_ANTAGONIST[k]) : k \in 1..Len(OUTFIT_POOL_ANTAGONIST)}

\* The seven keyword rules in priority order: the words that trigger a rule
\* (all = TRUE when every word is required) and the field the rule writes.
KeywordRules ==
    <<[words |-> {"jacket", "leather"}, all |-> FALSE, field |-> "outfit",
       text |-> "wearing a black leather jacket over a white t-shirt and dark jeans"],
      [words |-> {"car", "vehicle", "drive"}, all |-> FALSE, field |-> "prop",
       text |-> "a luxury car visible in the driveway through the window"],
      [words |-> {"shoes", "heels"}, all |-> FALSE, field |-> "prop",
       text |-> "designer shoes displayed prominently on a shelf"],
      [words |-> {"watch"}, all |-> FALSE, field |-> "outfit",
       text |-> "wearing a smart-casual blazer with an expensive luxury watch prominently visible on his wrist"],
      [words |-> {"bag", "purse", "handbag"}, all |-> FALSE, field |-> "prop",
       text |-> "a designer handbag prominently placed on a nearby table"],
      [words |-> {"dress", "wear"}, all |-> TRUE, field |-> "prop",
       text |-> "elegant dresses hanging in the wardrobe"],
      [words |-> {"jewelry", "diamond"}, all |-> FALSE, field |-> "prop",
       text |-> "expensive jewelry on display"]>>

\* The rule's keywords occur in the lower-cased script.
RuleMatches(rule, script_lower) ==
    IF rule.all THEN \A w \in rule.words : Contains(w, script_lower)
    ELSE \E w \in rule.words : Contains(w, script_lower)

\* The rule's text is what the story context carries in the rule's field.
RuleTookEffect(rule, context) ==
    IF rule.field = "prop" THEN context.prop_description = rule.text
    ELSE Get(context.outfit_changes, "odogwu", PyNone) = PyStr(rule.text)

\* C11: for every source script at most one of the seven keyword rules takes
\* effect in the story context, the first that matches in the order
\* jacket/leather, car/vehicle/drive, shoes/heels, watch, bag/purse/handbag,
\* dress+wear, jewelry/diamond; a script with both "car" and "watch" (and no
\* jacket word) gets the car prop description and no watch outfit.
C11_FirstMatchOnly ==
    story_context # Pending =>
        LET script_lower == Lower(original_script)
            matching == {k \in 1..7 : RuleMatches(KeywordRules[k], script_lower)}
            effective == {k \in 1..7 : RuleTookEffect(KeywordRules[k], story_context)}
        IN  /\ Cardinality(effective) <= 1
            /\ effective =
                {k \in matching : \A j \in matching : k <= j}
            /\ (matching = {} /\ original_script # "") =>
                    story_context.prop_description = ""
            /\ ({2, 4} \subseteq matching /\ 1 \notin matching) =>
                    /\ story_context.prop_description =
                        "a luxury car visible in the driveway through the window"
                    /\ \E k \in 1..Len(OUTFIT_POOL_ODOGWU) :
                        story_context.outfit_changes.odogwu = PyStr(OUTFIT_POOL_ODOGWU[k])

\* "She wants a new car and a watch": the car prop is set and the protagonist
\* keeps a drawn outfit.
C11_Witness ==
    /\ story_context # Pending
    /\ original_script = "She wants a new car and a watch"
    /\ story_context.prop_description =
        "a luxury car visible in the driveway through the window"
    /\ story_context.outfit_changes.odogwu \in
        {PyStr(OUTFIT_POOL_ODOGWU[k]) : k \in 1..Len(OUTFIT_POOL_ODOGWU)}

\* The location an image prompt or a condensed prompt renders: the text between
\* "Background is a " and the style instruction the prompt ends with.
RenderedLocation(prompt) ==
    LET marker == "Background is a "
        ending == ". " \o StyleInstruction(style.variation, style.animation_style,
                                           visual_context)
                  \o ", " \o AnimationStyle(style.animation_style).aspect_ratio \o "."
        at == CHOOSE k \in 1..Len(prompt) :
                /\ SubSeq(prompt, k, k + Len(marker) - 1) = marker
                /\ \A j \in 1..(k - 1) : SubSeq(prompt, j, j + Len(marker) - 1) # marker
    IN  SubSeq(prompt, at + Len(marker), Len(prompt) - Len(ending))

\* The index of the location entry the k-th flattened scene came from.
RECURSIVE LocationIndex(_, _, _)
LocationIndex(locations, m, k) ==
    IF k <= Len(locations[m].scenes) THEN m
    ELSE LocationIndex(locations, m + 1, k - Len(locations[m].scenes))

\* C12: in multi-location mode, for every location entry (with or without a
\* location_description), all the scenes flattened from that location render
\* one identical location description in their image prompts and condensed
\* prompts within a request.
C12_LocationSharedByItsScenes ==
    (pc = "built" /\ story_mode = "multi") =>
        \A j \in 1..Len(output), k \in 1..Len(output) :
            LocationIndex(result.locations, 1, j) = LocationIndex(result.locations, 1, k) =>
                /\ RenderedLocation(output[j].image_prompt)
                    = RenderedLocation(output[k].image_prompt)
                /\ RenderedLocation(output[j].condensed_prompt)
                    = RenderedLocation(output[k].image_prompt)

\* C13: in single-location mode, within one build_complete_output request, one
\* location description is used by every scene: the image prompt and the
\* condensed prompt of all scenes render the same location, also when neither
\* the scene nor the visual context supplies one and the location comes from
\* the fallback pool.
C13_OneLocationPerRequest ==
    (pc = "built" /\ story_mode = "single") =>
        \A j \in 1..Len(output), k \in 1..Len(output) :
            /\ RenderedLocation(output[j].image_prompt)
                = RenderedLocation(output[k].image_prompt)
            /\ RenderedLocation(output[j].condensed_prompt)
                = RenderedLocation(output[k].image_prompt)

\* The image prompt shows the action: it follows the character description and
\* is followed by the background, or by the posture in a wide shot.
RendersAction(image_prompt, action) ==
    \/ Contains(". " \o action \o ". Background is a ", image_prompt)
    \/ Contains(". " \o action \o ", while ", image_prompt)

\* C14: when a scene's action_description is absent or empty, the action in its
\* image prompt is the table entry for the scene's own phase, character role
\* and scene_id (scene 1, antagonist, Hook: "looking emotional or dramatic,
\* using wild hand gestures to emphasize her point, standing with entitled
\* expression"); a non-empty action_description is used verbatim instead.
C14_ActionFromOwnRole ==
    pc = "built" =>
        \A k \in 1..Len(output) :
            LET sc == parsed.value[k]
            IN  IF Truthy(sc.action_description)
                THEN RendersAction(output[k].image_prompt, Fmt(sc.action_description))
                ELSE (IsStr(sc.character) /\ sc.character.s \in Roles) =>
                        /\ RendersAction(output[k].image_prompt,
                                get_scene_action_detailed(sc.phase, sc.character.s,
                                                          sc.scene_id))
                        /\ (sc.scene_id = PyInt(1) /\ sc.phase = PyStr("Hook")
                            /\ sc.character = PyStr("antagonist")) =>
                                RendersAction(output[k].image_prompt,
                                    "looking emotional or dramatic, using wild hand gestures to emphasize her point, standing with entitled expression")

\* C16: building an output package from an empty scene list ends as a reported
\* failure, not as a package with zero scenes.
C16_EmptyListIsAFailure ==
    (pc \in {"built", "raised"} /\ scenes = <<>>) => pc = "raised"

\* The part of text between the first occurrence of left and the next
\* occurrence of right.
Between(text, left, right) ==
    LET first(marker, from) ==
            CHOOSE k \in from..Len(text) :
                /\ SubSeq(text, k, k + Len(marker) - 1) = marker
                /\ \A j \in from..(k - 1) : SubSeq(text, j, j + Len(marker) - 1) # marker
        start == first(left, 1) + Len(left)
    IN  SubSeq(text, start, first(right, start) - 1)

\* The location the scene setup prompt places the characters in.
SetupLocation(prompt) ==
    Between(prompt, "Both characters are fully visible in a ",
            ", maintaining physical anchors (")

\* The visual context supplies a location.
SuppliesLocation(vc) == vc.is_dict /\ Truthy(Get(vc.d, "location", PyNone))

\* The location is the default one: the high-end bedroom with the wardrobe of
\* the luxury Lekki home.
IsDefaultLocation(location) ==
    \/ location = DEFAULT_LOCATION
    \/ Contains("high-end bedroom with a large wardrobe", location)
    \/ Contains("Lekki home", location)

CameraMoves ==
    <<"Very slow subtle push-in toward the left side of frame, focusing on the speaking character.",
      "Very slow subtle push-in toward the right side of frame, focusing on the reacting character.",
      "Locked-off wide static shot. No camera movement. Both characters fully visible.",
      "Slow subtle pan right across the frame, then settle. Cinematic drift.">>

\* What follows the camera-movement clause in the motion prompts of a request:
\* the style's extra instruction and the base motion.
MotionEnding ==
    ExtraInstruction(MotionContext(visual_context))
    \o " Stay on one spot at all times. Subtle movements only. "
    \o (IF Contains("2D", Upper(style.aesthetic_type))
        THEN "Maintain 2D aesthetic." ELSE "Maintain 3D aesthetic.")

EndsWith(text, ending) ==
    /\ Len(ending) <= Len(text)
    /\ SubSeq(text, Len(text) - Len(ending) + 1, Len(text)) = ending

\* The camera moves the motion prompts name as their camera-movement clause.
CameraMovesIn(motion_list) ==
    LET ending == MotionEnding
    IN  [k \in 1..Len(motion_list) |->
            IF motion_list[k].raised # "" THEN {}
            ELSE {m \in 1..4 :
                    EndsWith(motion_list[k].value, " " \o CameraMoves[m] \o ending)}]

\* C15: for every scene_id >= 1 the camera-movement clause of the motion prompt
\* depends only on (scene_id - 1) mod 4: the residues 0..3 select push-in left,
\* push-in right, "Locked-off wide static shot" and pan-then-settle, so
\* scene_id 3 gets exactly the locked-off wide clause and any four consecutive
\* scene_ids get four distinct clauses.
C15_CameraCycleByResidue ==
    pc = "animated" =>
        LET moves == CameraMovesIn(motion_prompts)
            id(k) == parsed.value[k].scene_id.i
        IN  \A k \in 1..Len(motion_prompts) :
                id(k) >= 1 =>
                    /\ motion_prompts[k].raised = ""
                    /\ moves[k] = {((id(k) - 1) % 4) + 1}
                    /\ id(k) = 3 => moves[k] = {3}
                    /\ \A j \in 1..Len(motion_prompts) :
                            (id(j) >= 1 /\ id(j) # id(k) /\ id(j) - id(k) \in -3..3) =>
                                moves[j] # moves[k]

\* Fourteen scenes numbered 1..14: scene 3 is the locked-off wide shot and
\* scenes 4..7 name the four moves in the order pan, left, right, locked-off.
C15_Witness ==
    /\ pc = "animated"
    /\ Len(motion_prompts) = 14
    /\ \A k \in 1..14 : parsed.value[k].scene_id = PyInt(k)
    /\ LET moves == CameraMovesIn(motion_prompts)
       IN  /\ moves[3] = {3}
           /\ <<moves[4], moves[5], moves[6], moves[7]>> = <<{4}, {1}, {2}, {3}>>

Digits == "0123456789"

\* int(x) for a string of decimal digits
RECURSIVE ParseNat(_)
ParseNat(x) ==
    IF x = "" THEN 0
    ELSE LET last == SubSeq(x, Len(x), Len(x))
             digit == CHOOSE d \in 0..9 : SubSeq(Digits, d + 1, d + 1) = last
         IN  10 * ParseNat(SubSeq(x, 1, Len(x) - 1)) + digit

\* The second a duration slot "a-bs" ends at: the number b.
SlotEnd(duration) ==
    LET dash == CHOOSE k \in 1..Len(duration) : SubSeq(duration, k, k) = "-"
    IN  ParseNat(SubSeq(duration, dash + 1, Len(duration) - 1))

\* C18: for every scene list the video metadata reports total_scenes = the
\* number of scenes and duration_seconds = 7 x the number of scenes, which is
\* the second the duration slot of the last normalized scene ends at.
C18_DurationIsSevenPerScene ==
    (video_metadata # Pending /\ video_metadata.raised = "") =>
        /\ video_metadata.value.total_scenes = Len(scenes)
        /\ video_metadata.value.duration_seconds = 7 * Len(scenes)
        /\ (parsed.raised = "" /\ Len(parsed.value) > 0) =>
                /\ Len(parsed.value) = Len(scenes)
                /\ SlotEnd(parsed.value[Len(parsed.value)].duration.s)
                    = video_metadata.value.duration_seconds

\* Fourteen scenes: 14 scenes and 98 seconds, the last slot is "91-98s".
C18_Witness ==
    /\ video_metadata # Pending
    /\ video_metadata.raised = ""
    /\ Len(scenes) = 14
    /\ video_metadata.value = [total_scenes |-> 14, duration_seconds |-> 98]
    /\ parsed.value[14].duration = PyStr("91-98s")

\* The phases and the character roles the composers' tables are keyed by.
KnownPhases == {"Hook", "Build", "Pivot", "Dunk"}

KnownCharacters == {"protagonist", "antagonist", "both"}

\* A word that is none of the known ones.
Unrecognized(v, known) == IsStr(v) /\ v.s \notin known

\* The editing notes the three roles get in the phase of the scene.
RoleNotes(phase, scene_id) ==
    {generate_editing_notes(phase, PyStr(role), scene_id) : role \in KnownCharacters}

\* The composers raised on parsed scene k: the loop ended at it.
ComposersRaisedAt(k) == pc = "raised" /\ parsed.raised = "" /\ Len(output) = k - 1

\* C19: for every scene whose phase or character is outside the known sets
\* (Hook, Build, Pivot, Dunk; protagonist, antagonist, both), the composers
\* return without raising and every phase- or character-keyed lookup gives its
\* generic default: the narrative focus is "{name} in {phase} phase", the tone
\* is "Neutral", an unrecognized phase has the purpose "Story progression" and
\* the editing notes "Standard {phase} phase execution", and an unrecognized
\* character never gets the editing notes of one of the three roles.
C19_UnknownDegradesToGeneric ==
    (pc \in {"composing", "built", "raised"} /\ parsed.raised = "") =>
        \A k \in 1..Len(parsed.value) :
            LET scene == parsed.value[k]
                odd_phase == Unrecognized(scene.phase, KnownPhases)
                odd_character == Unrecognized(scene.character, KnownCharacters)
            IN  (odd_phase \/ odd_character) =>
                    /\ ~ComposersRaisedAt(k)
                    /\ k <= Len(output) =>
                        /\ output[k].pov.narrative_focus
                            = Fmt(get_character_name(scene.character)) \o " in "
                                \o Fmt(scene.phase) \o " phase"
                        /\ output[k].metadata.emotional_tone = "Neutral"
                        /\ odd_phase =>
                            /\ output[k].pov.editing_notes
                                = "Standard " \o Fmt(scene.phase) \o " phase execution"
                            /\ output[k].metadata.scene_purpose
                                = Fmt(scene.phase) \o " - Story progression"
                        /\ odd_character =>
                            output[k].pov.editing_notes
                                \notin RoleNotes(scene.phase, scene.scene_id)

\* The scene at list position k takes its phase from the dynamic rule, in its
\* cycling branch: the template is not a row of the 13-scene table, the raw
\* record leaves the phase to the template and the scene is neither scene 1 nor
\* scene total.
DynamicIntermediate(k) ==
    /\ TemplateDerived(scenes[k])
    /\ story_mode = "multi" \/ ~InSingleTemplates(parsed.value[k].scene_id)
    /\ parsed.value[k].scene_id.i > 1
    /\ parsed.value[k].scene_id.i < Len(parsed.value)

\* ceil(total / 4)
CeilQuarter(total) == (total + 3) \div 4

\* C20 as stated: under the dynamic rule every intermediate scene_id
\* (1 < scene_id < total) has the phase of its band in a partition of 1..total
\* into four contiguous bands Hook, Build, Pivot, Dunk of ceil(total / 4)
\* scenes each: phase = band((scene_id - 1) div ceil(total / 4)).
C20_BandsOfCeilQuarter ==
    parsed.raised = "" =>
        \A k \in 1..Len(parsed.value) :
            DynamicIntermediate(k) =>
                parsed.value[k].phase
                    = PyStr(PhaseList[((parsed.value[k].scene_id.i - 1)
                                        \div CeilQuarter(Len(parsed.value))) + 1])

\* C20 amended: the bands are q = max(1, floor(total / 4)) scenes wide and the
\* last one takes the remainder: an intermediate scene_id is in Hook up to q,
\* in Build from q + 1 to 2q, in Pivot from 2q + 1 to 3q and in Dunk above 3q.
C20_BandsOfFloorQuarter ==
    parsed.raised = "" =>
        \A k \in 1..Len(parsed.value) :
            DynamicIntermediate(k) =>
                LET id == parsed.value[k].scene_id.i
                    q == Max(1, Len(parsed.value) \div 4)
                    phase == parsed.value[k].phase
                IN  /\ phase = PyStr("Hook") <=> id <= q
                    /\ phase = PyStr("Build") <=> (q < id /\ id <= 2 * q)
                    /\ phase = PyStr("Pivot") <=> (2 * q < id /\ id <= 3 * q)
                    /\ phase = PyStr("Dunk") <=> 3 * q < id

\* Seven multi-location scenes numbered 1..7: the bands are one scene wide, so
\* scenes 2 and 3 are Build and Pivot and scenes 4..6 are Dunk already.
C20_Witness ==
    /\ story_mode = "multi"
    /\ parsed.raised = ""
    /\ Len(parsed.value) = 7
    /\ \A k \in 1..7 : TemplateDerived(scenes[k]) /\ parsed.value[k].scene_id = PyInt(k)
    /\ \A k \in 2..6 : DynamicIntermediate(k)
    /\ [k \in 2..6 |-> parsed.value[k].phase.s]
        = (2 :> "Build" @@ 3 :> "Pivot" @@ 4 :> "Dunk" @@ 5 :> "Dunk" @@ 6 :> "Dunk")

\* Hook < Build < Pivot < Dunk
PhaseRank(phase) == CHOOSE r \in 1..4 : PhaseList[r] = phase

\* The raw scenes are numbered 1..n and supply no phase.
NumberedWithoutPhase ==
    \A k \in 1..Len(scenes) :
        /\ Get(scenes[k], "scene_id", PyNone) = PyInt(k)
        /\ "phase" \notin DOMAIN scenes[k]

\* C21: in single-location mode, for every scene count (counts above 13
\* included, where the scene_ids past 13 use the dynamic rule) and raw scenes
\* numbered 1..n that supply no phase, the normalized phases are monotonic in
\* scene_id under Hook < Build < Pivot < Dunk: no scene has an earlier phase
\* than a scene before it.
C21_PhasesMonotonic ==
    (story_mode = "single" /\ parsed.raised = "" /\ NumberedWithoutPhase) =>
        \A j \in 1..Len(parsed.value), k \in 1..Len(parsed.value) :
            j < k => PhaseRank(parsed.value[j].phase.s) <= PhaseRank(parsed.value[k].phase.s)

TemplateFields == {"shot_type", "camera_angle", "phase", "character"}

\* The raw record has the field, and not as null or as the empty string.
PresentNonEmpty(raw, field) ==
    /\ field \in DOMAIN raw
    /\ raw[field] # PyNone
    /\ raw[field] # PyStr("")

\* C22: for each of shot_type, camera_angle, phase and character, and every raw
\* scene, the normalized value is the raw value when the raw record has the
\* field present and non-empty, and otherwise the template value for the
\* scene's scene_id, the story mode and the total scene count.
C22_RawElseTemplate ==
    parsed.raised = "" =>
        \A k \in 1..Len(parsed.value) :
            LET template == TemplateLookup(parsed.value[k].scene_id, story_mode, Len(scenes))
            IN  /\ template.raised = ""
                /\ \A field \in TemplateFields :
                    parsed.value[k][field]
                        = IF PresentNonEmpty(scenes[k], field) THEN scenes[k][field]
                          ELSE PyStr(template.value[field])

\* Thirteen single-location scenes, the third with a raw phase "Pivot": it keeps
\* that phase where the table says Hook, and takes the table's character; the
\* fourth scene takes the table's Build.
C22_Witness ==
    /\ story_mode = "single"
    /\ parsed.raised = ""
    /\ Len(parsed.value) = 13
    /\ Get(scenes[3], "phase", PyNone) = PyStr("Pivot")
    /\ parsed.value[3].scene_id = PyInt(3)
    /\ single_templates[3].phase = "Hook"
    /\ parsed.value[3].phase = PyStr("Pivot")
    /\ parsed.value[3].character = PyStr("antagonist")
    /\ parsed.value[4].phase = PyStr("Build")

\* Every scene_id a raw record supplies is a positive integer.
SuppliedIdsPositive ==
    \A k \in 1..Len(scenes) :
        "scene_id" \in DOMAIN scenes[k] =>
            IsInt(scenes[k].scene_id) /\ scenes[k].scene_id.i >= 1

\* C23: after normalization of any raw scene list the scene_ids are positive
\* integers, pairwise distinct within the video and strictly increasing in list
\* order, also when some raw records supply a scene_id (a positive integer)
\* and others rely on the positional fallback, or when the numbering restarts
\* in each location.
C23_SceneIdsPositiveIncreasing ==
    (parsed.raised = "" /\ SuppliedIdsPositive) =>
        \A k \in 1..Len(parsed.value) :
            /\ IsInt(parsed.value[k].scene_id)
            /\ parsed.value[k].scene_id.i >= 1
            /\ \A j \in 1..(k - 1) :
                /\ IsInt(parsed.value[j].scene_id)
                /\ parsed.value[j].scene_id.i < parsed.value[k].scene_id.i

\* C24: parse_scenes preserves order and length: its output has one normalized
\* scene per raw scene, in the same order (each carries the dialogue of the raw
\* record at its position), the scene at 0-based position i has the raw
\* record's scene_id when that key is present and i + 1 otherwise, and the raw
\* records are the extracted ones still.
C24_OrderAndLengthPreserved ==
    parsed.raised = "" =>
        /\ Len(parsed.value) = Len(scenes)
        /\ \A k \in 1..Len(scenes) :
            /\ parsed.value[k].scene_id
                = IF "scene_id" \in DOMAIN scenes[k] THEN scenes[k].scene_id ELSE PyInt(k)
            /\ parsed.value[k].dialogue = Get(scenes[k], "dialogue", PyStr(""))
        /\ scenes = ExtractScenes(result, story_mode)

\* Three raw scenes of which only the first carries a scene_id, 99: the
\* normalized scene_ids are 99, 2, 3 and the dialogues keep their places.
C24_Witness ==
    /\ parsed.raised = ""
    /\ Len(scenes) = 3
    /\ Get(scenes[1], "scene_id", PyNone) = PyInt(99)
    /\ "scene_id" \notin DOMAIN scenes[2] \cup DOMAIN scenes[3]
    /\ [k \in 1..3 |-> parsed.value[k].scene_id] = <<PyInt(99), PyInt(2), PyInt(3)>>
    /\ [k \in 1..3 |-> parsed.value[k].dialogue]
        = [k \in 1..3 |-> PyStr(TestDialogue(k))]

NonEmptyStr(v) == IsStr(v) /\ v.s # ""

\* The location the precedence rule allows for a scene: its own
\* location_context, else the visual context's location, else any pool entry.
AllowedLocations(scene) ==
    LET global == IF visual_context.is_dict
                  THEN Get(visual_context.d, "location", PyNone) ELSE PyNone
    IN  IF NonEmptyStr(scene.location_context) THEN {scene.location_context.s}
        ELSE IF NonEmptyStr(global) THEN {global.s}
        ELSE {LOCATION_POOL[k] : k \in 1..Len(LOCATION_POOL)}

\* C25: the location rendered in the image prompt and in the condensed prompt
\* is the scene's own location_context when that is non-empty, else the visual
\* context's location when that is non-empty, else a member of the fixed
\* location pool; a scene's location_context overrides the global location for
\* that scene only.
C25_LocationPrecedence ==
    pc \in {"composing", "built"} =>
        \A k \in 1..Len(output) :
            /\ RenderedLocation(output[k].image_prompt) \in AllowedLocations(parsed.value[k])
            /\ RenderedLocation(output[k].condensed_prompt)
                \in AllowedLocations(parsed.value[k])

\* Two scenes under the extracted setting, the first with a location of its
\* own: it is rendered on the rooftop, the second in the setting's apartment.
C25_Witness ==
    /\ pc = "built"
    /\ Len(output) = 2
    /\ visual_context = BaseVisualContext
    /\ parsed.value[1].location_context = PyStr("Lagos rooftop lounge")
    /\ parsed.value[2].location_context = PyStr("")
    /\ RenderedLocation(output[1].image_prompt) = "Lagos rooftop lounge"
    /\ RenderedLocation(output[1].condensed_prompt) = "Lagos rooftop lounge"
    /\ RenderedLocation(output[2].image_prompt) = "cozy Lekki apartment living room"
    /\ RenderedLocation(output[2].condensed_prompt) = "cozy Lekki apartment living room"

StartsWith(text, beginning) ==
    Len(text) >= Len(beginning) /\ SubSeq(text, 1, Len(beginning)) = beginning

\* The character-motion clause the statement gives the scene.
ExpectedCharacterMotion(scene) ==
    IF NonEmptyStr(scene.action_description)
    THEN "Character action: " \o scene.action_description.s
         \o ". Facial expressions matching dialogue emotion."
    ELSE IF scene.scene_id.i \in 1..3 /\ scene.character.s \in {"protagonist", "antagonist"}
    THEN get_character_motion(scene.scene_id, scene.character)
    ELSE "Subtle blinking and breathing."

\* C26: the character-motion clause of the motion prompt is "Character action:
\* <action_description>. ..." whenever the scene has a non-empty
\* action_description, for every scene_id and character; otherwise it is the
\* motion-table entry for (scene_id, character), which exists only for
\* scene_ids 1..3 with protagonist or antagonist, and for every other
\* combination it is "Subtle blinking and breathing.".
C26_CharacterMotionClause ==
    pc = "animated" =>
        /\ \A id \in 1..3, role \in {"protagonist", "antagonist"} :
            get_character_motion(PyInt(id), PyStr(role)) # "Subtle blinking and breathing."
        /\ \A k \in 1..Len(motion_prompts) :
            /\ motion_prompts[k].raised = ""
            /\ StartsWith(motion_prompts[k].value,
                          ExpectedCharacterMotion(parsed.value[k]) \o " "
                            \o get_background_motion(parsed.value[k].shot_type.s))

\* Scene 3 of a longer list carries the action "waving" and shows it; scene 1
\* (antagonist) and scene 2 take their table entries, scene 4 and scene 8
\* (both characters) only blink and breathe.
C26_Witness ==
    /\ pc = "animated"
    /\ story_mode = "single"
    /\ Len(motion_prompts) = 13
    /\ parsed.value[3].action_description = PyStr("waving")
    /\ StartsWith(motion_prompts[3].value,
                  "Character action: waving. Facial expressions matching dialogue emotion. ")
    /\ StartsWith(motion_prompts[1].value, "Character talking animatedly, hand gestures")
    /\ StartsWith(motion_prompts[2].value, "Character reacting with surprise")
    /\ StartsWith(motion_prompts[4].value, "Subtle blinking and breathing. ")
    /\ parsed.value[8].character = PyStr("both")
    /\ StartsWith(motion_prompts[8].value, "Subtle blinking and breathing. ")

\* The first cue and the number of cues of the three primary lists.
PrimaryCues(scene_id) ==
    IF scene_id = PyInt(1)
    THEN [first |-> "Low-tempo slowed + reverb Afrobeats instrumental (Burna Boy style)",
          count |-> 3]
    ELSE IF scene_id = PyInt(2)
    THEN [first |-> "Record scratch sound effect", count |-> 4]
    ELSE [first |-> "Deep bass thud on key logic points", count |-> 4]

\* C27: for every scene the SFX list is the primary list selected by scene_id
\* alone (scene_id 1: intro cues, scene_id 2: pivot cues, any other scene_id:
\* dunk cues) followed by the same constant four-entry ambient list; the
\* character does not influence the result and the ambient suffix is the same
\* for all scenes.
C27_SfxByScenePlusAmbient ==
    pc \in {"composing", "built"} =>
        \A k \in 1..Len(output) :
            LET sfx == output[k].sfx
                primary == PrimaryCues(parsed.value[k].scene_id)
            IN  /\ Len(sfx) = primary.count + 4
                /\ sfx[1] = primary.first
                /\ SubSeq(sfx, 1, primary.count)
                    = get_scene_sfx(parsed.value[k].scene_id, PyStr("protagonist"))
                /\ SubSeq(sfx, 1, primary.count)
                    = get_scene_sfx(parsed.value[k].scene_id, PyStr("antagonist"))
                /\ SubSeq(sfx, primary.count + 1, Len(sfx)) = get_ambient_sfx
                /\ \A j \in 1..Len(output) :
                    SubSeq(output[j].sfx, Len(output[j].sfx) - 3, Len(output[j].sfx))
                        = SubSeq(sfx, Len(sfx) - 3, Len(sfx))

\* Two scenes with the scene_ids 13 and 2, antagonist both: the first gets the
\* four dunk cues, the second the four pivot cues, each followed by the four
\* ambient entries.
C27_Witness ==
    /\ pc = "built"
    /\ Len(output) = 2
    /\ parsed.value[1].scene_id = PyInt(13)
    /\ parsed.value[2].scene_id = PyInt(2)
    /\ parsed.value[2].character = PyStr("antagonist")
    /\ Len(output[1].sfx) = 8
    /\ output[1].sfx[1] = "Deep bass thud on key logic points"
    /\ output[2].sfx[1] = "Record scratch sound effect"
    /\ output[1].sfx[5] = "Lagos city ambiance (distant traffic, city hum)"
    /\ SubSeq(output[1].sfx, 5, 8) = SubSeq(output[2].sfx, 5, 8)

\* The dialogues of the scenes mention one of the words, in any case, also
\* inside a longer word.
Mentions(words) ==
    LET script_text == Lower(JoinDialogues(scenes, 1))
    IN  \E word \in words : Contains(word, script_text)

\* The canned hooks of the matching groups in the order toxic, relationship,
\* logic, without the one the title hook already is.
CannedHooksAfter(title_hook) ==
    LET canned == (IF Mentions(ToxicWords) THEN ToxicHooks ELSE <<>>)
                  \o (IF Mentions(RelationshipWords) THEN RelationshipHooks ELSE <<>>)
                  \o (IF Mentions(LogicWords) THEN LogicHooks ELSE <<>>)
    IN  SelectSeq(canned, LAMBDA h : h # title_hook)

\* C28: for every SEO record and scene list, generate_onscreen_hooks returns at
\* most 5 hooks with no duplicates, whose first element is the title-based hook
\* "POV: <title>", followed by the canned hooks of the matching keyword groups
\* in the fixed priority order toxic, relationship, logic (each group
\* contributing its three phrases in order, truncated at five overall).
C28_HooksTitleThenGroups ==
    (pc = "hooked" /\ onscreen_hooks.raised = "") =>
        LET hooks == onscreen_hooks.value
            title_hook == "POV: " \o (IF "title" \in DOMAIN seo_data THEN seo_data.title
                                      ELSE "Naija Stoic Logic")
            canned == CannedHooksAfter(title_hook)
        IN  /\ Len(hooks) \in 1..5
            /\ \A j \in 1..Len(hooks), k \in 1..Len(hooks) : j # k => hooks[j] # hooks[k]
            /\ hooks[1] = title_hook
            /\ Len(hooks) = Min(5, 1 + Len(canned))
            /\ \A k \in 2..Len(hooks) : hooks[k] = canned[k - 1]

\* Dialogues that mention paying and a man under a matched record: the title
\* hook, the three toxic hooks and the first relationship hook, cut at five.
C28_Witness ==
    /\ pc = "hooked"
    /\ Get(seo_data, "title", "") = "When She Says You Must Pay"
    /\ Len(scenes) = 2
    /\ Get(scenes[1], "dialogue", PyNone) = PyStr("You must PAY my bills")
    /\ Get(scenes[2], "dialogue", PyNone) = PyStr("Which man go gree for that")
    /\ onscreen_hooks
        = Ok(<<"POV: When She Says You Must Pay", "POV: The Toxic Council",
               "POV: Entitlement Mentality", "POV: Slay Queen Logic",
               "POV: Modern Relationships">>)

\* The number of raw scenes attributed to the role.
ScenesOf(role) ==
    Cardinality({k \in 1..Len(scenes) : Get(scenes[k], "character", PyNone) = PyStr(role)})

\* C29: add_pov_context_to_seo selects the POV-context sentence by a three-way
\* comparison of the number of scenes whose character is protagonist with the
\* number whose character is antagonist (more protagonist, more antagonist,
\* equal gives the neutral balanced sentence), returns a new record that keeps
\* title, tags and hashtags, and leaves the input SEO record unchanged.
C29_PovContextByMajority ==
    pc \in {"enhanced", "hooked"} =>
        /\ enhanced_seo.pov_context
            = (CASE ScenesOf("protagonist") > ScenesOf("antagonist") ->
                    "Male protagonist defending against entitled demands with stoic logic"
                 [] ScenesOf("protagonist") < ScenesOf("antagonist") ->
                    "Female antagonist making demands, protagonist responds with logic"
                 [] OTHER -> "Balanced dialogue showing logic vs emotion conflict")
        /\ DOMAIN enhanced_seo
            = DOMAIN seo_data \cup {"pov_context", "primary_character", "narrative_style"}
        /\ \A key \in DOMAIN seo_data : enhanced_seo[key] = seo_data[key]
        /\ seo_data \in SeoRecords
        /\ "pov_context" \notin DOMAIN seo_data

\* Two antagonist scenes and one protagonist scene under the matched record:
\* the antagonist's sentence, with the record's title, tags and hashtags.
C29_Witness ==
    /\ pc = "enhanced"
    /\ Len(scenes) = 3
    /\ ScenesOf("antagonist") = 2
    /\ ScenesOf("protagonist") = 1
    /\ Get(seo_data, "title", "") = "When She Says You Must Pay"
    /\ enhanced_seo.pov_context
        = "Female antagonist making demands, protagonist responds with logic"
    /\ enhanced_seo.title = "When She Says You Must Pay"
    /\ enhanced_seo.tags = <<"Bills", "Dating">>
    /\ enhanced_seo.hashtags = <<"#billing">>

\* The second a duration slot "a-bs" starts at: the number a.
SlotStart(duration) ==
    LET dash == CHOOSE k \in 1..Len(duration) : SubSeq(duration, k, k) = "-"
    IN  ParseNat(SubSeq(duration, 1, dash - 1))

\* C30: for every normalized scene of a package, the metadata's
\* timestamp_seconds, (scene_id - 1) * 7, is the second its duration slot
\* starts at, i * 7 for the 0-based list position i: the timestamp and the
\* duration of a scene never disagree, also when the raw scene_ids are not the
\* positions 1..n.
C30_TimestampStartsTheSlot ==
    pc \in {"composing", "built"} =>
        \A k \in 1..Len(output) :
            /\ output[k].metadata.timestamp_seconds = (parsed.value[k].scene_id.i - 1) * 7
            /\ output[k].metadata.timestamp_seconds
                = SlotStart(parsed.value[k].duration.s)

====
